---------------------------- MODULE Spec2Model ----------------------------
(***************************************************************************)
(* A model of robofuse: the sync engine between the Real-Debrid provider   *)
(* and a local library of .strm files.                                     *)
(*                                                                         *)
(* Names (torrent names, file names, relative paths) are sequences of      *)
(* one-character strings, so that sanitizeFilename and buildSTRMPath are    *)
(* computed character by character as the Go code computes them.           *)
(***************************************************************************)
EXTENDS Integers, Sequences, FiniteSets, TLC

(***************************************************************************)
(* Generic helpers                                                         *)
(***************************************************************************)
Range(s) == {s[i] : i \in 1..Len(s)}
NoRepeats(s) == \A i, j \in DOMAIN s : s[i] = s[j] => i = j

\* s[a..b] with Go's half-open slice s[a-1:b] semantics on 1-based indices
Slice(s, a, b) == IF a > b THEN <<>> ELSE SubSeq(s, a, b)

Min2(a, b) == IF a < b THEN a ELSE b

RECURSIVE SetToSeq(_)
\* some fixed enumeration of a finite set (used where the order is immaterial)
SetToSeq(S) ==
    IF S = {} THEN <<>>
    ELSE LET x == CHOOSE y \in S : TRUE IN <<x>> \o SetToSeq(S \ {x})

\* all orderings of a finite set: Go map iteration order is unspecified
Perms(S) == {p \in [1..Cardinality(S) -> S] : \A x \in S : \E i \in DOMAIN p : p[i] = x}

(***************************************************************************)
(* strm: sanitizeFilename and buildSTRMPath                                *)
(***************************************************************************)
MaxBaseLen == 200
TruncateLen == 195
MaxDecodePasses == 3

LowerLetters == {"a","b","c","d","e","f","g","h","i","j","k","l","m","n","o","p","q","r","s","t","u","v","w","x","y","z"}
UpperLetters == {"A","B","C","D","E","F","G","H","I","J","K","L","M","N","O","P","Q","R","S","T","U","V","W","X","Y","Z"}
Digits == {"0","1","2","3","4","5","6","7","8","9"}
\* \w of Go's regexp: [0-9A-Za-z_]
WordChars == LowerLetters \cup UpperLetters \cup Digits \cup {"_"}
WhiteSpace == {" ", "\t", "\n", "\r"}
InvalidChars == {"/", "\\", ":", "*", "?", "\"", "<", ">", "|"}

HexVal(c) ==
    CASE c = "0" -> 0 [] c = "1" -> 1 [] c = "2" -> 2 [] c = "3" -> 3
      [] c = "4" -> 4 [] c = "5" -> 5 [] c = "6" -> 6 [] c = "7" -> 7
      [] c = "8" -> 8 [] c = "9" -> 9
      [] c \in {"a","A"} -> 10 [] c \in {"b","B"} -> 11 [] c \in {"c","C"} -> 12
      [] c \in {"d","D"} -> 13 [] c \in {"e","E"} -> 14 [] c \in {"f","F"} -> 15
      [] OTHER -> -1

\* the characters the model can name by their code; any other code is "#"
CharOfCode(n) ==
    CASE n = 32 -> " " [] n = 37 -> "%" [] n = 45 -> "-" [] n = 46 -> "."
      [] n = 47 -> "/" [] n = 58 -> ":" [] n = 64 -> "@" [] n = 95 -> "_"
      [] OTHER -> "#"

\* strconv.ParseInt(hex, 16, 8) on two hex digits: fails above 127
HexOK(a, b) == HexVal(a) >= 0 /\ HexVal(b) >= 0 /\ 16 * HexVal(a) + HexVal(b) <= 127

RECURSIVE urlDecodeFrom(_, _)
urlDecodeFrom(s, i) ==
    IF i > Len(s) - 2 THEN s
    ELSE IF s[i] = "%" /\ HexOK(s[i+1], s[i+2])
         THEN urlDecodeFrom(Slice(s, 1, i - 1)
                              \o <<CharOfCode(16 * HexVal(s[i+1]) + HexVal(s[i+2]))>>
                              \o Slice(s, i + 3, Len(s)), i + 1)
         ELSE urlDecodeFrom(s, i + 1)

urlDecode(s) == urlDecodeFrom(s, 1)

RECURSIVE DecodePasses(_, _)
DecodePasses(s, n) ==
    IF n = 0 THEN s
    ELSE LET d == urlDecode(s) IN IF d = s THEN s ELSE DecodePasses(d, n - 1)

\* length of the longest prefix of s[from..] made of characters of set C
RECURSIVE RunLen(_, _, _)
RunLen(s, from, C) ==
    IF from > Len(s) \/ s[from] \notin C THEN 0 ELSE 1 + RunLen(s, from + 1, C)

HasAt(s, i, t) == i + Len(t) - 1 <= Len(s) /\ Slice(s, i, i + Len(t) - 1) = t

DotComAt == <<".", "c", "o", "m", "@">>
WwwDot == <<"w", "w", "w", ".">>

\* ^(hhd\d+\.com@|hdd\d+\.com@|www\.[\w-]+\.com@|[\w-]+\.com@): the first two
\* alternatives match the same text as the last one
removeSitePrefixes(s) ==
    LET W == WordChars \cup {"-"}
        r1 == RunLen(s, 1, W)
        r2 == RunLen(s, 5, W)
    IN  IF r1 > 0 /\ HasAt(s, r1 + 1, DotComAt) THEN Slice(s, r1 + 6, Len(s))
        ELSE IF HasAt(s, 1, WwwDot) /\ r2 > 0 /\ HasAt(s, 5 + r2, DotComAt)
             THEN Slice(s, r2 + 10, Len(s))
             ELSE s

\* filepath.Ext: from the last dot of the last path element, "" if none
RECURSIVE ExtFrom(_, _)
ExtFrom(s, i) ==
    IF i < 1 \/ s[i] = "/" THEN <<>>
    ELSE IF s[i] = "." THEN Slice(s, i, Len(s))
         ELSE ExtFrom(s, i - 1)

Ext(s) == ExtFrom(s, Len(s))

TrimSuffix(s, suf) == Slice(s, 1, Len(s) - Len(suf))

ReplaceAll(s, C, by) == [i \in 1..Len(s) |-> IF s[i] \in C THEN by ELSE s[i]]

\* strings.Fields: the maximal runs of non-space characters
RECURSIVE Fields(_)
Fields(s) ==
    IF s = <<>> THEN <<>>
    ELSE IF s[1] \in WhiteSpace THEN Fields(Tail(s))
         ELSE LET n == RunLen(s, 1, {s[i] : i \in 1..Len(s)} \ WhiteSpace)
              IN  <<Slice(s, 1, n)>> \o Fields(Slice(s, n + 1, Len(s)))

RECURSIVE JoinWords(_)
JoinWords(ws) ==
    IF ws = <<>> THEN <<>>
    ELSE IF Len(ws) = 1 THEN ws[1]
         ELSE ws[1] \o <<" ">> \o JoinWords(Tail(ws))

\* the word loop of step 6: append words while the result stays <= 195 long
RECURSIVE TruncateWords(_, _)
TruncateWords(acc, ws) ==
    IF ws = <<>> THEN acc
    ELSE LET testLen == Len(acc) + (IF acc # <<>> THEN 1 ELSE 0) + Len(ws[1])
         IN  IF testLen <= TruncateLen
             THEN TruncateWords((IF acc # <<>> THEN acc \o <<" ">> ELSE acc) \o ws[1], Tail(ws))
             ELSE acc

Truncate(baseName) ==
    IF Len(baseName) > MaxBaseLen
    THEN LET t == TruncateWords(<<>>, Fields(baseName))
         IN  IF t # <<>> THEN t ELSE Slice(baseName, 1, TruncateLen)
    ELSE baseName

RECURSIVE TrimLeft(_)
TrimLeft(s) == IF s # <<>> /\ s[1] \in WhiteSpace THEN TrimLeft(Tail(s)) ELSE s

RECURSIVE TrimRight(_)
TrimRight(s) ==
    IF s # <<>> /\ s[Len(s)] \in WhiteSpace THEN TrimRight(Slice(s, 1, Len(s) - 1)) ELSE s

TrimSpace(s) == TrimRight(TrimLeft(s))

sanitizeFilename(name0) ==
    LET name == removeSitePrefixes(DecodePasses(name0, MaxDecodePasses))
        ext  == Ext(name)
        b1   == ReplaceAll(TrimSuffix(name, ext), {".", "_", "-"}, " ")
        b2   == JoinWords(Fields(b1))
        b3   == Truncate(b2)
        b4   == ReplaceAll(b3, InvalidChars, "_")
    IN  TrimSpace(b4) \o ext

SanIdle == [pc |-> "idle", name |-> <<>>, once |-> <<>>, twice |-> <<>>]

StrmExt == <<".", "s", "t", "r", "m">>

\* filepath.Join(folder, strmName): empty and "." elements vanish
PathJoin(folder, file) ==
    IF folder = <<>> \/ folder = <<".">> THEN file ELSE folder \o <<"/">> \o file

buildSTRMPath(folderName, filename) ==
    LET folder == sanitizeFilename(folderName)
        file   == sanitizeFilename(filename)
    IN  PathJoin(folder, TrimSuffix(file, Ext(file)) \o StrmExt)


(***************************************************************************)
(* The universe: links, the files behind them, torrents, URLs              *)
(***************************************************************************)
MaxUrl == 2
MaxTime == 7
MaxCands == 2
MaxTorrentId == 2

Links == {"l1", "l2", "l3"}
TorrentIds == 1..MaxTorrentId
Hashes == {"h1", "h2"}

\* the g-th download URL the provider has generated for a link
UrlOf(l, g) == <<l, g>>

MB == 1048576
MinFileSizeMB == 150
MinFileSizeBytes == MinFileSizeMB * MB

\* the file the provider serves behind each link
LinkFilename(l) ==
    CASE l = "l1" -> <<"m", ".", "m", "k", "v">>
      [] l = "l2" -> <<"m", ".", "s", "r", "t">>
      [] OTHER    -> <<"n", "%", "2", "0", "x", ".", "M", "P", "4">>

LinkFilesize(l) == IF l = "l2" THEN 1 * MB ELSE 700 * MB

\* a torrent's display name and links are those of its content (hash)
HashName(h) == IF h = "h1" THEN <<"T", "_", "1">> ELSE <<"S", ".", "2">>
HashLinks(h) == IF h = "h1" THEN <<"l1", "l2">> ELSE <<"l3">>

(***************************************************************************)
(* State                                                                   *)
(***************************************************************************)
VARIABLES
    files,          \* output tree: relative path -> [url, pad] of each regular file
    dirs,           \* the sub-directories of the output root that exist
    rootExists,     \* whether the output root exists
    outputDirClean, \* config: output_dir is written in filepath.Clean form
    tracking,       \* tracking.Service.data: path -> FileTracking
    trackingFile,   \* the persisted tracking_file
    now,            \* the clock, in days
    lastOp,         \* the strm-service operation that has just returned
    lastSync,       \* its arguments and result, when it was Sync
    lastExpired,    \* the result of the last GetExpiredFiles
    pathOf          \* buildSTRMPath of every folder and file name, computed once

VARIABLES
    rdTorrents,     \* provider: torrent id -> [Hash, Status] of every torrent of the account
    rdNextId,       \* provider: the id the next added torrent gets
    rdDownloads,    \* provider: link -> number of download URLs generated for it so far
    queue,          \* retry.Queue.items
    retryFile,      \* the persisted retry_queue_file
    cfgRepair,      \* config: repair_torrents
    pc,             \* where Run is: "idle" between cycles, else the phase it is in
    dryRun,         \* the argument of the current Run
    downloaded,     \* Run: the downloaded torrents
    dead,           \* Run: the dead torrents
    downloadMap,    \* Service.downloadMap: link -> Download
    missing,        \* Run: missingLinks
    taskState,      \* unrestrictLinks: per task "pending" or "done"
    results,        \* unrestrictLinks: results
    failed,         \* unrestrictLinks: failed
    queued,         \* unrestrictLinks: queued
    candidates,     \* Service.candidates
    runResult,      \* the RunResult being filled in
    runErr,         \* the error the last Run returned, "" when none
    drainItems,     \* processRetryQueue: items (the links of the snapshot)
    drainIdx,       \* processRetryQueue: position in items
    drainStats,     \* processRetryQueue: stats
    repairList,     \* RepairTorrents: torrents
    repairIdx,      \* RepairTorrents: position in torrents
    repaired,       \* RepairTorrents: succeeded
    refreshList,    \* refreshExpiringLinks: expiredFiles
    refreshIdx,     \* refreshExpiringLinks: position in expiredFiles
    lastCall,       \* the last UnrestrictLink call: phase, link, what it returned
    phases,         \* the phases the current (or last) cycle has run
    callLog,        \* the UnrestrictLink calls the current (or last) cycle has dispatched
    cycles,         \* the number of cycles started
    envLeft,        \* the number of changes the account's owner may still make
    twoCycle,       \* the provider state at the start of the previous and of this cycle,
                    \* what a dry run would have reported at the start of this one, and
                    \* the links the fan-out of the previous and of this cycle enqueued,
                    \* the links the drain of this cycle removed as maxed out, and
                    \* the refreshes that succeeded: the path and the time
    unr,            \* one UnrestrictLink call, request by request
    dl,             \* one GetDownloads call, page by page
    bc,             \* one buildCandidatesInto call
    san,            \* a name, sanitized once and once more
    lim,            \* the two rate limiters and the tasks that send requests through them
    watch,          \* the loop of Watch: the cycle it runs or the sleep it is in
    pool,           \* one worker Pool: its permits, its wait group and its jobs
    do,             \* one call of the HTTP client's Do, attempt by attempt
    rq,             \* a retry queue under any sequence of its operations
    dr,             \* one call of processRetryQueue on any queue
    gt,             \* one GetTorrents call, page by page
    rp,             \* one call of RepairTorrents, request by request
    sv,             \* one Save of the tracking store or of the retry queue, and a kill
    org,            \* the organizer: the files on disk and what its last Run returned
    od,             \* organizer.New: the configuration, the working directory and the files Run wrote
    fo,             \* unrestrictLinks: the tasks of the fan-out, the mutex and what it guards
    ff              \* Step 6 of Run: the failed links of the fan-out and the torrents passed to repair

\* the library, and with it what no step of a cycle changes
libVars == <<files, dirs, rootExists, outputDirClean, tracking, trackingFile,
             now, lastOp, lastSync, lastExpired, pathOf>>

\* the calls that are followed on their own, outside a cycle
auxVars == <<unr, dl, bc, san, lim, watch, pool, do, rq, dr, gt, rp, sv, org, od, fo, ff>>

\* all but one of them
exceptUnr == <<libVars, dl, bc, san, lim, watch, pool, do, rq, dr, gt, rp, sv, org, od, fo, ff>>
exceptDl == <<libVars, unr, bc, san, lim, watch, pool, do, rq, dr, gt, rp, sv, org, od, fo, ff>>
exceptBc == <<libVars, unr, dl, san, lim, watch, pool, do, rq, dr, gt, rp, sv, org, od, fo, ff>>
exceptSan == <<libVars, unr, dl, bc, lim, watch, pool, do, rq, dr, gt, rp, sv, org, od, fo, ff>>
exceptLim == <<libVars, unr, dl, bc, san, watch, pool, do, rq, dr, gt, rp, sv, org, od, fo, ff>>
exceptWatch == <<libVars, unr, dl, bc, san, lim, pool, do, rq, dr, gt, rp, sv, org, od, fo, ff>>
exceptPool == <<libVars, unr, dl, bc, san, lim, watch, do, rq, dr, gt, rp, sv, org, od, fo, ff>>
exceptDo == <<libVars, unr, dl, bc, san, lim, watch, pool, rq, dr, gt, rp, sv, org, od, fo, ff>>
exceptRq == <<libVars, unr, dl, bc, san, lim, watch, pool, do, dr, gt, rp, sv, org, od, fo, ff>>
exceptDr == <<libVars, unr, dl, bc, san, lim, watch, pool, do, rq, gt, rp, sv, org, od, fo, ff>>
exceptGt == <<libVars, unr, dl, bc, san, lim, watch, pool, do, rq, dr, rp, sv, org, od, fo, ff>>
exceptRp == <<libVars, unr, dl, bc, san, lim, watch, pool, do, rq, dr, gt, sv, org, od, fo, ff>>
exceptSv == <<libVars, unr, dl, bc, san, lim, watch, pool, do, rq, dr, gt, rp, org, od, fo, ff>>
exceptOrg == <<libVars, unr, dl, bc, san, lim, watch, pool, do, rq, dr, gt, rp, sv, od, fo, ff>>
exceptOd == <<libVars, unr, dl, bc, san, lim, watch, pool, do, rq, dr, gt, rp, sv, org, fo, ff>>
exceptFo == <<libVars, unr, dl, bc, san, lim, watch, pool, do, rq, dr, gt, rp, sv, org, od, ff>>
exceptFf == <<libVars, unr, dl, bc, san, lim, watch, pool, do, rq, dr, gt, rp, sv, org, od, fo>>

strmVars == <<libVars, auxVars>>

remoteVars == <<rdTorrents, rdNextId, rdDownloads>>
queueVars == <<queue, retryFile>>
runVars == <<pc, dryRun, downloaded, dead, downloadMap, missing, candidates, runResult, runErr>>
fanoutVars == <<taskState, results, failed, queued>>
drainVars == <<drainItems, drainIdx, drainStats>>
repairVars == <<repairList, repairIdx, repaired>>
refreshVars == <<refreshList, refreshIdx>>
histVars == <<lastCall, phases, callLog, cycles, envLeft, twoCycle>>
cycleVars == <<remoteVars, queueVars, cfgRepair, runVars, fanoutVars, drainVars, repairVars,
               refreshVars, histVars>>

vars == <<strmVars, cycleVars>>

ZeroTime == -1
FileExpiryDays == 6
MaxRetryAttempts == 3
MaxCycles == 2
MaxEnv == 1

(***************************************************************************)
(* tracking.Service                                                        *)
(***************************************************************************)
FileTracking(path, url, link, tid, created, checked) ==
    [RelativePath |-> path, DownloadURL |-> url, Link |-> link,
     CreatedAt |-> created, LastChecked |-> checked, TorrentID |-> tid]

\* the fields Track leaves alone on an existing entry are kept
Track(data, path, url, link, tid, t) ==
    IF path \in DOMAIN data
    THEN [data EXCEPT ![path].DownloadURL = url, ![path].Link = link,
                      ![path].LastChecked = t]
    ELSE [p \in DOMAIN data \cup {path} |->
            IF p = path THEN FileTracking(path, url, link, tid, t, t) ELSE data[p]]

Remove(data, path) == [p \in DOMAIN data \ {path} |-> data[p]]

\* the paths of the records GetExpired returns
GetExpired(data, olderThan, t) ==
    {p \in DOMAIN data : data[p].CreatedAt < t - olderThan}

(***************************************************************************)
(* strm.Service: scanExisting, Sync, UpdateSTRM                            *)
(***************************************************************************)
UpperSeq == <<"A","B","C","D","E","F","G","H","I","J","K","L","M","N","O","P","Q","R","S","T","U","V","W","X","Y","Z">>
LowerSeq == <<"a","b","c","d","e","f","g","h","i","j","k","l","m","n","o","p","q","r","s","t","u","v","w","x","y","z">>

ToLowerChar(c) ==
    IF c \in UpperLetters THEN LowerSeq[CHOOSE i \in 1..26 : UpperSeq[i] = c] ELSE c

ToLower(s) == [i \in 1..Len(s) |-> ToLowerChar(s[i])]

HasSuffix(s, suf) == Len(s) >= Len(suf) /\ Slice(s, Len(s) - Len(suf) + 1, Len(s)) = suf

\* filepath.Dir of a relative path below the root: <<>> is the root itself
RECURSIVE DirFrom(_, _)
DirFrom(p, i) ==
    IF i < 1 THEN <<>> ELSE IF p[i] = "/" THEN Slice(p, 1, i - 1) ELSE DirFrom(p, i - 1)

Dir(p) == DirFrom(p, Len(p))

Content(url) == [url |-> url, pad |-> FALSE]

STRMCandidate(tid, folder, filename, url, link, size) ==
    [TorrentID |-> tid, TorrentFolder |-> folder, Filename |-> filename,
     DownloadURL |-> url, Link |-> link, Filesize |-> size]

\* a scan that finds no file
scanNothing(fs) == <<>>

\* relative path -> trimmed content of every file named *.strm (any case)
scanExisting(fs) ==
    [p \in {q \in DOMAIN fs : HasSuffix(ToLower(q), StrmExt)} |-> fs[p].url]

\* the table of buildSTRMPath over the folder and file names of the universe
FolderNames == {HashName(h) : h \in Hashes} \cup {<<"T", " ", "1">>}
FileNames == {LinkFilename(l) : l \in Links}
RECURSIVE PathTable(_)
PathTable(N) ==
    IF N = {} THEN <<>>
    ELSE LET n == CHOOSE m \in N : TRUE
         IN  (n :> buildSTRMPath(n[1], n[2])) @@ PathTable(N \ {n})

InitPaths == pathOf = PathTable(FolderNames \X FileNames)

CandPath(c) == pathOf[<<c.TorrentFolder, c.Filename>>]

\* the paths of the files of links l1 and l3 below the folder of torrent content h1
PathA == pathOf[<<HashName("h1"), LinkFilename("l1")>>]
PathB == pathOf[<<HashName("h1"), LinkFilename("l3")>>]

ExpectedPaths(cands) == {CandPath(cands[i]) : i \in DOMAIN cands}

\* expected[path] and candidateMap[path]: a later candidate overwrites an earlier one
LastIndexOf(cands, p) ==
    CHOOSE i \in DOMAIN cands :
        /\ CandPath(cands[i]) = p
        /\ \A j \in DOMAIN cands : CandPath(cands[j]) = p => j <= i

CandidateMap(cands) == [p \in ExpectedPaths(cands) |-> cands[LastIndexOf(cands, p)]]

\* writeSTRM: MkdirAll of the parent, then WriteFile
WriteFiles(fs, cmap, W) ==
    [p \in DOMAIN fs \cup W |-> IF p \in W THEN Content(cmap[p].DownloadURL) ELSE fs[p]]

RECURSIVE TrackAll(_, _, _, _)
TrackAll(data, cmap, W, t) ==
    IF W = {} THEN data
    ELSE LET p == CHOOSE q \in W : TRUE
         IN  TrackAll(Track(data, p, cmap[p].DownloadURL, cmap[p].Link, cmap[p].TorrentID, t),
                      cmap, W \ {p}, t)

RemoveAll(data, D) == [p \in DOMAIN data \ D |-> data[p]]

DirIsEmpty(fs, d) == \A p \in DOMAIN fs : Dir(p) # d

\* cleanupEmptyDirs for every deleted file: an emptied sub-directory is removed;
\* the loop then reaches the root, which it tells apart by string comparison
\* with the configured output_dir
DirsAfterCleanup(fs, ds, D) ==
    ds \ {d \in {Dir(p) : p \in D} : d # <<>> /\ DirIsEmpty(fs, d)}

RootAfterCleanup(fs, ds, D, root, clean) ==
    IF D # {} /\ ~clean /\ DOMAIN fs = {} /\ DirsAfterCleanup(fs, ds, D) = {}
    THEN FALSE ELSE root

SyncResult(a, u, d, s, t) ==
    [Added |-> a, Updated |-> u, Deleted |-> d, Skipped |-> s, Tracked |-> t]

\* before any Sync
NoSync == [cands |-> <<>>, dryRun |-> FALSE, ok |-> FALSE, result |-> SyncResult(0, 0, 0, 0, 0)]

SyncSkipped(existing, cmap) ==
    {p \in DOMAIN cmap : p \in DOMAIN existing /\ existing[p] = cmap[p].DownloadURL}

SyncUpdated(existing, cmap) ==
    {p \in DOMAIN cmap : p \in DOMAIN existing /\ existing[p] # cmap[p].DownloadURL}

SyncAdded(existing, cmap) == DOMAIN cmap \ DOMAIN existing

\* a Sync that deletes nothing
SyncOrphansNone(existing, cmap) == {}

SyncOrphans(existing, cmap) == DOMAIN existing \ DOMAIN cmap

\* the state Sync(candidates, dry) leaves behind and the result it returns,
\* without I/O error
SyncOutcome(fs, ds, root, clean, data, cands, dry, t) ==
    LET existing == scanExisting(fs)
        cmap     == CandidateMap(cands)
        A        == SyncAdded(existing, cmap)
        U        == SyncUpdated(existing, cmap)
        S        == SyncSkipped(existing, cmap)
        D        == SyncOrphans(existing, cmap)
        fs1      == WriteFiles(fs, cmap, A \cup U)
        fs2      == [p \in DOMAIN fs1 \ D |-> fs1[p]]
        ds1      == ds \cup ({Dir(p) : p \in A \cup U} \ {<<>>})
        tr1      == RemoveAll(TrackAll(data, cmap, A \cup U, t), D)
    IN  [files    |-> IF dry THEN fs ELSE fs2,
         dirs     |-> IF dry THEN ds ELSE DirsAfterCleanup(fs2, ds1, D),
         root     |-> IF dry THEN root ELSE RootAfterCleanup(fs2, ds1, D, TRUE, clean),
         tracking |-> IF dry THEN data ELSE tr1,
         result   |-> SyncResult(Cardinality(A), Cardinality(U), Cardinality(D),
                                 Cardinality(S),
                                 Cardinality(DOMAIN (IF dry THEN data ELSE tr1)))]

\* a Sync that writes whatever its dryRun argument says
SyncIgnoringDryRun(cands, dry) ==
    \E o \in {SyncOutcome(files, dirs, rootExists, outputDirClean, tracking, cands, FALSE, now)} :
        /\ files' = o.files
        /\ dirs' = o.dirs
        /\ rootExists' = o.root
        /\ tracking' = o.tracking
        /\ trackingFile' = o.tracking
        /\ lastOp' = "sync"
        /\ lastSync' = [cands |-> cands, dryRun |-> dry, ok |-> TRUE, result |-> o.result]

Sync(cands, dry) ==
    \E o \in {SyncOutcome(files, dirs, rootExists, outputDirClean, tracking, cands, dry, now)} :
        /\ files' = o.files
        /\ dirs' = o.dirs
        /\ rootExists' = o.root
        /\ tracking' = o.tracking
        /\ trackingFile' = IF dry THEN trackingFile ELSE o.tracking
        /\ lastOp' = "sync"
        /\ lastSync' = [cands |-> cands, dryRun |-> dry, ok |-> TRUE, result |-> o.result]

\* Sync when MkdirAll of the output root or the directory walk fails: it
\* returns before it looks at the candidates
SyncFails(dry) ==
    /\ lastOp' = "sync"
    /\ lastSync' = [cands |-> <<>>, dryRun |-> dry, ok |-> FALSE,
                    result |-> SyncResult(0, 0, 0, 0, 0)]
    /\ UNCHANGED <<files, dirs, rootExists, tracking, trackingFile>>

\* UpdateSTRM: WriteFile (no MkdirAll), Track, Save
UpdateSTRMOk(path) == rootExists /\ (Dir(path) = <<>> \/ Dir(path) \in dirs)

\* an UpdateSTRM that writes the file and leaves the tracking store alone
UpdateSTRMNoTrack(path, newURL, link, tid) ==
    IF UpdateSTRMOk(path)
    THEN /\ files' = [p \in DOMAIN files \cup {path} |->
                        IF p = path THEN Content(newURL) ELSE files[p]]
         /\ UNCHANGED <<tracking, trackingFile>>
    ELSE UNCHANGED <<files, tracking, trackingFile>>

UpdateSTRM(path, newURL, link, tid) ==
    IF UpdateSTRMOk(path)
    THEN /\ files' = [p \in DOMAIN files \cup {path} |->
                        IF p = path THEN Content(newURL) ELSE files[p]]
         /\ tracking' = Track(tracking, path, newURL, link, tid, now)
         /\ trackingFile' = Track(tracking, path, newURL, link, tid, now)
    ELSE UNCHANGED <<files, tracking, trackingFile>>

(***************************************************************************)
(* request: the errors UnrestrictLink returns                              *)
(***************************************************************************)
StatusOK == 200
StatusTooManyRequests == 429
StatusBadGateway == 502
StatusServiceUnavailable == 503
StatusGatewayTimeout == 504

HTTPError(status, code) == [kind |-> "http", StatusCode |-> status, Code |-> code]
\* the typed provider errors, which are no HTTPError with a retryable status
HosterUnavailableError == [kind |-> "hoster", StatusCode |-> 0, Code |-> "hoster_unavailable"]
TrafficExceededError == [kind |-> "traffic", StatusCode |-> 0, Code |-> "traffic_exceeded"]
\* an error made by fmt.Errorf
PlainError == [kind |-> "plain", StatusCode |-> 0, Code |-> ""]
NoError == [kind |-> "none", StatusCode |-> 0, Code |-> ""]

ServerUnavailableRetryable == HTTPError(StatusServiceUnavailable, "server_unavailable_retryable")
RateLimitExceeded == HTTPError(StatusTooManyRequests, "rate_limit_exceeded")

\* an isRetryableError that also queues rate-limit failures
isRetryableErrorOr429(err) ==
    err.kind = "http"
    /\ (err.StatusCode \in {StatusServiceUnavailable, StatusBadGateway, StatusGatewayTimeout,
                            StatusTooManyRequests}
        \/ err.Code = "server_unavailable_retryable")

isRetryableError(err) ==
    err.kind = "http"
    /\ (err.StatusCode \in {StatusServiceUnavailable, StatusBadGateway, StatusGatewayTimeout}
        \/ err.Code = "server_unavailable_retryable")

\* mapErrorCode: the provider's error code of a response that is no 200, 503 or 429
mapErrorCode(code) ==
    CASE code \in {19, 24, 35} -> HosterUnavailableError
      [] code \in {23, 34, 36} -> TrafficExceededError
      [] OTHER                 -> PlainError

\* what an UnrestrictLink call can return when it fails, by the trouble the
\* link's hoster is in: overload and rate limiting for l1, removed files and
\* exhausted traffic for l2, overload and an unlisted provider error for l3
UnrestrictErrors(l) ==
    CASE l = "l1" -> {ServerUnavailableRetryable, RateLimitExceeded}
      [] l = "l2" -> {mapErrorCode(19), mapErrorCode(23)}
      [] OTHER    -> {ServerUnavailableRetryable, mapErrorCode(1)}

(***************************************************************************)
(* realdebrid.Client.UnrestrictLink over request.Client.Do                 *)
(***************************************************************************)
\* the general client: WithMaxRetries(5), WithRetryableStatus(429, 502, 503)
maxRetries == 5
retryableStatus == {StatusTooManyRequests, StatusBadGateway, StatusServiceUnavailable}

max503Retries == 2
max429Retries == 3

StatusForbidden == 403

\* what the provider may answer to one request, and the error codes of its
\* error bodies: file removed, traffic exceeded, and one with no typed error
ProviderStatuses ==
    {StatusOK, StatusTooManyRequests, StatusBadGateway, StatusServiceUnavailable,
     StatusForbidden}
ErrorCodes == {1, 19, 23}

\* no call yet. attempt is Do's loop counter; requests counts the requests
\* the provider has answered; lead503 counts the 503 answers before the first
\* other answer; seen503, seen429 and seenOther count the provider's 503
\* answers, its 429 answers and its answers of another status than 200, 503
\* and 429; responses counts the responses Do has handed to UnrestrictLink
UnrIdle ==
    [pc |-> "idle", attempt |-> 0, attempt503 |-> 0, attempt429 |-> 0, requests |-> 0,
     lead503 |-> 0, seen503 |-> 0, seen429 |-> 0, seenOther |-> 0, responses |-> 0,
     result |-> NoError]

\* Do hands the response to its caller when the status is not retryable or
\* the last attempt has been made
DoReturns(status, attempt) == status \notin retryableStatus \/ attempt = maxRetries

\* UnrestrictLink's switch over the status of the response Do has returned; a
\* retry calls Do again
UnrestrictSwitch(u, status, code) ==
    CASE status = StatusOK ->
            [u EXCEPT !.pc = "done", !.result = NoError]
      [] status = StatusServiceUnavailable ->
            IF u.attempt503 + 1 <= max503Retries
            THEN [u EXCEPT !.attempt503 = @ + 1, !.attempt = 0]
            ELSE [u EXCEPT !.attempt503 = @ + 1, !.pc = "done",
                           !.result = ServerUnavailableRetryable]
      [] status = StatusTooManyRequests ->
            IF u.attempt429 + 1 <= max429Retries
            THEN [u EXCEPT !.attempt429 = @ + 1, !.attempt = 0]
            ELSE [u EXCEPT !.attempt429 = @ + 1, !.pc = "done", !.result = RateLimitExceeded]
      [] OTHER ->
            [u EXCEPT !.pc = "done", !.result = mapErrorCode(code)]

\* the provider answers one request of the call
AfterAnswer(u, status, code) ==
    LET seen == [u EXCEPT !.requests = @ + 1,
                          !.lead503 = IF u.lead503 = u.requests
                                         /\ status = StatusServiceUnavailable
                                      THEN @ + 1 ELSE @,
                          !.seen503 = IF status = StatusServiceUnavailable THEN @ + 1 ELSE @,
                          !.seen429 = IF status = StatusTooManyRequests THEN @ + 1 ELSE @,
                          !.seenOther = IF status \notin {StatusOK, StatusServiceUnavailable,
                                                          StatusTooManyRequests}
                                        THEN @ + 1 ELSE @]
    IN  IF DoReturns(status, u.attempt)
        THEN UnrestrictSwitch([seen EXCEPT !.responses = @ + 1], status, code)
        ELSE [seen EXCEPT !.attempt = @ + 1]

(***************************************************************************)
(* The rate limiters of the two request clients                            *)
(***************************************************************************)
Max2(a, b) == IF a > b THEN a ELSE b

\* a token bucket that holds at most burst tokens and gains perMinute tokens
\* a minute
Limiter(perMinute, burst) == [perMinute |-> perMinute, burst |-> burst]

NoLimiter == Limiter(0, 0)

\* a limiter whose burst is a fifth of the rate
ParseRateLimitIntFifth(requestsPerMinute) ==
    IF requestsPerMinute <= 0 THEN NoLimiter
    ELSE Limiter(requestsPerMinute, Max2(1, requestsPerMinute \div 5))

ParseRateLimitInt(requestsPerMinute) ==
    IF requestsPerMinute <= 0 THEN NoLimiter
    ELSE Limiter(requestsPerMinute, Max2(1, requestsPerMinute \div 10))

SecondsPerMinute == 60

\* realdebrid.New: the limiter of each client, with the fallbacks of 1 and of
\* 0.4 requests a second
ClientLimiters(generalRate, torrentsRate) ==
    [general  |-> IF ParseRateLimitInt(generalRate) = NoLimiter
                  THEN Limiter(60, 1) ELSE ParseRateLimitInt(generalRate),
     torrents |-> IF ParseRateLimitInt(torrentsRate) = NoLimiter
                  THEN Limiter(24, 1) ELSE ParseRateLimitInt(torrentsRate)]

EndpointClasses == {"general", "torrents"}
LimTasks == {1, 2}

\* tokens are counted in sixtieths, so that a second adds perMinute of them
\* and a request takes SecondsPerMinute of them
FullBucket(l) == l.burst * SecondsPerMinute

LimIdle ==
    [pc |-> "idle", limiter |-> [c \in EndpointClasses |-> NoLimiter],
     tokens |-> [c \in EndpointClasses |-> 0], clock |-> 0, waits |-> 0,
     task |-> [t \in LimTasks |-> [pc |-> "idle", class |-> "general", attempt |-> 0]],
     sent |-> <<>>]

(***************************************************************************)
(* Service.Watch                                                           *)
(***************************************************************************)
MinWatchInterval == 10
DefaultWatchInterval == 60

\* config.Load: an interval of fewer than ten seconds becomes sixty
WatchModeInterval(configured) ==
    IF configured < MinWatchInterval THEN DefaultWatchInterval ELSE configured

\* the steps of Run that end it with an error, in their order
RunSteps == <<"fetching torrents", "fetching downloads", "syncing STRM files">>

NoRunError == "none"

\* a loop that ends when a cycle has failed
WatchReturningOnError(err) == IF err = NoRunError THEN "sleep" ELSE "returned"

\* what Watch does when Run has returned: it logs the error or prints the
\* summary, and sleeps in both cases
WatchAfterRun(err) == "sleep"

\* err is what the last cycle that ended returned; slept, the seconds of the
\* last sleep; started, the cycles started so far, counted up to MaxStarted
WatchIdle ==
    [pc |-> "idle", interval |-> 0, step |-> 0, err |-> NoRunError, slept |-> 0,
     started |-> 0]

(***************************************************************************)
(* worker.Pool                                                             *)
(***************************************************************************)
MaxJobs == 4
Jobs == 1..MaxJobs

\* NewPool: fewer than one worker is one worker; sem has room for that many
NewPool(maxWorkers) ==
    [maxWorkers |-> IF maxWorkers < 1 THEN 1 ELSE maxWorkers,
     semCap |-> IF maxWorkers < 1 THEN 1 ELSE maxWorkers]

\* a channel that takes one value more than its capacity
semSendOverfull(held, cap) == held <= cap

\* p.sem <- struct{}{} goes through when the channel is not full
semSend(held, cap) == held < cap

\* a wait group that lets Wait go while one job is still counted
wgWaitOneLeft(counter) == counter <= 1

\* p.wg.Wait() goes through when the counter is zero
wgWait(counter) == counter = 0

\* the jobs submitted so far: they are numbered in the order of Submit
Submitted(p) == {j \in Jobs : p.job[j] # "none"}

\* Submit: wg.Add(1), and a goroutine that starts at the send on sem
Submit(p) ==
    [p EXCEPT !.wg = @ + 1, !.job[Cardinality(Submitted(p)) + 1] = "acquire"]

\* requested is the argument of NewPool; held, the values in sem; wg, the
\* counter of the wait group; before, the jobs submitted before the last call
\* of Wait
PoolIdle ==
    [pc |-> "idle", requested |-> 0, maxWorkers |-> 0, semCap |-> 0, held |-> 0,
     wg |-> 0, job |-> [j \in Jobs |-> "none"], before |-> {}]

(***************************************************************************)
(* request.Client.Do                                                       *)
(***************************************************************************)
StatusInternalServerError == 500
StatusNotFound == 404
DefaultMaxRetries == 3
InitialBackoff == 500

\* request.New without options: three retries and five retryable statuses
DefaultRetryableStatus ==
    {StatusTooManyRequests, StatusInternalServerError, StatusBadGateway,
     StatusServiceUnavailable, StatusGatewayTimeout}

\* WithRetryableStatus makes a new map of the codes it is given
WithRetryableStatus(client, statusCodes) ==
    [client EXCEPT !.retryableStatus = statusCodes]

WithMaxRetries(client, n) == [client EXCEPT !.maxRetries = n]

requestNew == [maxRetries |-> DefaultMaxRetries, retryableStatus |-> DefaultRetryableStatus]

\* realdebrid.New builds the general and the torrents client with the same
\* options: five retries and the statuses 429, 502 and 503
realdebridNew ==
    [c \in EndpointClasses |->
        WithRetryableStatus(WithMaxRetries(requestNew, maxRetries), retryableStatus)]

\* a loop that goes round once more
DoLastAttemptOneMore(client, attempt) == attempt = client.maxRetries + 1

\* the last turn of the loop of Do
DoLastAttempt(client, attempt) == attempt = client.maxRetries

\* rand.Int63n(n) is below n; three of its values are followed
Int63n(n) == {0, n \div 2, n - 1}

\* what doRequest gives: a response with a status, or an error that
\* isRetryableError of the request package takes for a passing one or not
DoStatuses ==
    {StatusOK, StatusNotFound, StatusTooManyRequests, StatusInternalServerError,
     StatusBadGateway, StatusServiceUnavailable, StatusGatewayTimeout}
DoErrors == {"connection reset by peer", "certificate"}
requestIsRetryableError(err) == err = "connection reset by peer"

NoResponse == 0

\* attempt and backoff are the locals of Do; dispatched counts the calls of
\* doRequest; status and err are what the last one gave; slept is the last
\* sleepTime and retries the number of sleeps; returned tells what Do gave
\* back: "resp", "err", "ctx" or "max retries exceeded"
DoIdle ==
    [pc |-> "idle", class |-> "general", client |-> requestNew, attempt |-> 0,
     backoff |-> 0, dispatched |-> 0, status |-> NoResponse, err |-> "", slept |-> 0,
     retries |-> 0, returned |-> ""]

(***************************************************************************)
(* realdebrid.Client.GetTorrents                                           *)
(***************************************************************************)
StatusNoContent == 204
\* limit and the safety limit of GetTorrents, scaled down
TorrentsLimit == 2
MaxPages == 3

TorrentStatuses == {"downloaded", "dead", "downloading"}

\* a safety limit that lets one page more through
PastSafetyLimitLate(page) == page > MaxPages + 1

\* the safety limit, looked at after page++
PastSafetyLimit(page) == page > MaxPages

\* the switch over t.Status
FilterByStatus(all, status) == SelectSeq(all, LAMBDA t : t.Status = status)

\* the pages the provider may answer with: up to limit torrents each
TorrentPages ==
    UNION {[1..n -> TorrentStatuses] : n \in 0..TorrentsLimit}

\* asked lists the requests made; sizes, the lengths of the pages that came
\* with status 200, and NoContent for a 204; allTorrents, page, downloaded,
\* dead and err are the locals and the results of GetTorrents
NoContent == -1
GtIdle ==
    [pc |-> "idle", page |-> 0, asked |-> <<>>, sizes |-> <<>>, allTorrents |-> <<>>,
     downloaded |-> <<>>, dead |-> <<>>, err |-> ""]

(***************************************************************************)
(* repair.Service.RepairTorrents                                           *)
(***************************************************************************)
MaxBatch == 3

\* what is known of the repair of one torrent: the id AddMagnet gave (0 when
\* it failed), whether SelectVideoFiles succeeded, whether the new and the old
\* torrent were deleted, and how RepairTorrents counted it
NoRepair ==
    [old |-> 0, new |-> 0, selected |-> FALSE, newDeleted |-> FALSE, oldDeleted |-> FALSE,
     counted |-> "none"]

\* torrents are the ids passed in; account, the ids the provider holds;
\* cur, the repair under way and repairs, those that are over
RpIdle ==
    [pc |-> "idle", dryRun |-> FALSE, torrents |-> <<>>, idx |-> 1, account |-> {},
     nextId |-> 1, cur |-> NoRepair, repairs |-> <<>>, succeeded |-> 0, failed |-> 0]

(***************************************************************************)
(* Save of tracking.Service and of retry.Queue                             *)
(***************************************************************************)
MaxDoc == 2
\* the documents: what json.MarshalIndent gives, as a sequence of pieces
DocPieces == {"a", "b"}
Docs == UNION {[1..n -> DocPieces] : n \in 0..MaxDoc}

Stores == {"tracking", "retry"}

\* file is what the store's file holds; previous, what it held when Save was
\* called; data, the document Save has marshalled
SvIdle == [pc |-> "idle", store |-> "tracking", file |-> <<>>, previous |-> <<>>, data |-> <<>>]

(***************************************************************************)
(* organizer.Organizer                                                     *)
(***************************************************************************)
\* the .strm files of the library, by their path under the library
\* directory: two torrents of the same film
RelPaths == {<<"Film.2024.1080p", "Film.2024.strm">>, <<"Film (2024)", "Film.2024.strm">>}
RdLinks == {"real-debrid.com/d/ABC123", "real-debrid.com/d/DEF456", "real-debrid.com/d/GHI789"}
\* a link is one file of one torrent, and the path of a .strm file is made of
\* the names of the torrent and of the file: the first torrent has had two
\* links, as a repaired torrent has, the second one
LinksOf(relPath) ==
    IF relPath[1] = "Film.2024.1080p"
    THEN {"real-debrid.com/d/ABC123", "real-debrid.com/d/GHI789"}
    ELSE {"real-debrid.com/d/DEF456"}
DownloadURLs == {"old.example/stream", "new.example/stream"}

\* the identifier after /d/ in a link, "" without one
getRDIDFromLink(link) ==
    CASE link = "real-debrid.com/d/ABC123" -> "ABC123"
      [] link = "real-debrid.com/d/DEF456" -> "DEF456"
      [] link = "real-debrid.com/d/GHI789" -> "GHI789"
      [] OTHER -> ""

\* what ptt parses of a file name: the title and the year; neither season nor
\* episode in these names, so each of them is a movie
parsedTitle(filename) == IF filename = "Film.2024.strm" THEN "Film" ELSE "Unknown"
parsedYear(filename) == IF filename = "Film.2024.strm" THEN "2024" ELSE ""

\* the destination under the organized directory: the folder of the
\* formatted title, and the file named after title, identifier and extension
getContentTypeAndPath(relPath, rdID) ==
    LET filename       == relPath[Len(relPath)]
        formattedTitle == <<parsedTitle(filename), parsedYear(filename)>>
    IN  <<"Movies", formattedTitle, <<formattedTitle, rdID, ".strm">>>>

\* the paths New computes from the configuration
libraryDir(relPath) == <<"library", relPath>>
organizedDir(destPath) == <<"library-organized", destPath>>
dbPath == <<"cache", "organizer_db.json">>
trackingPath == <<"cache", "file_tracking.json">>

DestPaths == UNION {{getContentTypeAndPath(p, getRDIDFromLink(l)) : l \in LinksOf(p)} : p \in RelPaths}
OrgFiles == {libraryDir(p) : p \in RelPaths} \cup {organizedDir(d) : d \in DestPaths}
               \cup {dbPath, trackingPath}

\* what a path holds: nothing, the URL of a .strm file, or a JSON map
NoFile == [kind |-> "none"]
StrmFile(url) == [kind |-> "strm", url |-> url]
MapFile(m) == [kind |-> "map", m |-> m]
EmptyMap == [p \in {} |-> NoFile]

TrackingEntry(link, url) == [Link |-> link, DownloadURL |-> url]
FileEntry(dest, rdID, url) == [DestPath |-> dest, RDID |-> rdID, DownloadURL |-> url]
Result == [Processed |-> 0, New |-> 0, Deleted |-> 0, Updated |-> 0, Skipped |-> 0, Errors |-> 0]

fileExists(fs, path) == fs[path] # NoFile
loadDB(fs) == IF fs[dbPath] = NoFile THEN EmptyMap ELSE fs[dbPath].m
loadTracking(fs) == IF fs[trackingPath] = NoFile THEN EmptyMap ELSE fs[trackingPath].m
\* saveDB writing over the tracking file instead
saveDBOverTracking(fs, db) == [fs EXCEPT ![trackingPath] = MapFile(db)]
saveDB(fs, db) == [fs EXCEPT ![dbPath] = MapFile(db)]
\* os.Create truncates the destination, io.Copy fills it from the source
copyFile(fs, src, dst) == [fs EXCEPT ![dst] = fs[src]]

\* the body of the loop keeping an entry on its identifier and its organized
\* file alone, whatever the URLs
OrganizeEntryByID(st, db, relPath, meta) ==
    IF ~fileExists(st.fs, libraryDir(relPath))
    THEN st
    ELSE LET seen == [st EXCEPT !.current = @ \cup {relPath}]
             rdID == getRDIDFromLink(meta.Link)
             kept == /\ relPath \in DOMAIN db
                     /\ db[relPath].RDID = rdID
                     /\ fileExists(st.fs, organizedDir(db[relPath].DestPath))
             dest == getContentTypeAndPath(relPath, rdID)
         IN  IF kept
             THEN [seen EXCEPT !.newState = (relPath :> db[relPath]) @@ @,
                               !.result.Skipped = @ + 1]
             ELSE [seen EXCEPT !.fs = copyFile(@, libraryDir(relPath), organizedDir(dest)),
                               !.newState = (relPath :> FileEntry(dest, rdID, meta.DownloadURL)) @@ @,
                               !.result.New = @ + 1]

\* the body of Run's loop over the tracking entries, for one of them; st
\* holds the files, newState, currentSourcePaths and the result
OrganizeEntry(st, db, relPath, meta) ==
    IF ~fileExists(st.fs, libraryDir(relPath))
    THEN st
    ELSE LET seen    == [st EXCEPT !.current = @ \cup {relPath}]
             rdID    == getRDIDFromLink(meta.Link)
             sameURL == meta.DownloadURL # "" /\ db[relPath].DownloadURL = meta.DownloadURL
             kept    == /\ relPath \in DOMAIN db
                        /\ db[relPath].RDID = rdID
                        /\ fileExists(st.fs, organizedDir(db[relPath].DestPath))
                        /\ (sameURL \/ meta.DownloadURL = "")
             dest    == getContentTypeAndPath(relPath, rdID)
         IN  IF kept
             THEN [seen EXCEPT !.newState = (relPath :> db[relPath]) @@ @,
                               !.result.Skipped = @ + 1]
             ELSE [seen EXCEPT !.fs = copyFile(@, libraryDir(relPath), organizedDir(dest)),
                               !.newState = (relPath :> FileEntry(dest, rdID, meta.DownloadURL)) @@ @,
                               !.result.New = @ + 1]

RECURSIVE OrganizeEntries(_, _, _, _, _)
OrganizeEntries(st, db, entries, order, i) ==
    IF i > Len(order)
    THEN st
    ELSE OrganizeEntries(OrganizeEntry(st, db, order[i], entries[order[i]]), db, entries,
                         order, i + 1)

\* the second loop sparing the entries whose path the tracking file still lists
RemoveStaleUntracked(st, db) ==
    LET stale == {organizedDir(db[p].DestPath) :
                     p \in (DOMAIN db \ st.current) \ DOMAIN loadTracking(st.fs)}
        there == {f \in stale : fileExists(st.fs, f)}
    IN  [st EXCEPT !.fs = [f \in DOMAIN @ |-> IF f \in there THEN NoFile ELSE @[f]],
                   !.result.Deleted = @ + Cardinality(there)]

\* Run's second loop: the destination of every database entry whose source
\* was not seen is removed, and counted when it was there
RemoveStale(st, db) ==
    LET stale == {organizedDir(db[p].DestPath) : p \in DOMAIN db \ st.current}
        there == {f \in stale : fileExists(st.fs, f)}
    IN  [st EXCEPT !.fs = [f \in DOMAIN @ |-> IF f \in there THEN NoFile ELSE @[f]],
                   !.result.Deleted = @ + Cardinality(there)]

\* Run, the tracking entries taken in this order
Run(fs, order) ==
    LET db       == loadDB(fs)
        entries  == loadTracking(fs)
        start    == [fs |-> fs, newState |-> EmptyMap, current |-> {},
                     result |-> [Result EXCEPT !.Processed = Cardinality(DOMAIN entries)]]
        cleaned  == RemoveStale(OrganizeEntries(start, db, entries, order, 1), db)
    IN  [fs |-> saveDB(cleaned.fs, cleaned.newState), result |-> cleaned.result]

\* fs is what the disk holds, before what it held when Run was last called,
\* result what that Run returned, and ran says that Run was the last step
OrgIdle == [fs |-> [f \in OrgFiles |-> NoFile], before |-> [f \in OrgFiles |-> NoFile],
            result |-> Result, ran |-> FALSE]

(***************************************************************************)
(* organizer.New: the directories of the organizer                         *)
(***************************************************************************)
\* a path: whether it starts at the root, and its elements; "" is the path
\* without elements
AbsPath(segs) == [abs |-> TRUE, segs |-> segs]
RelPath(segs) == [abs |-> FALSE, segs |-> segs]
EmptyPath == RelPath(<<>>)
IsAbs(path) == path.abs

\* filepath.Clean on paths without "..": the "." elements go
Clean(path) == [path EXCEPT !.segs = SelectSeq(@, LAMBDA e : e # ".")]
\* filepath.Join: the elements of both, cleaned
Join(a, b) == Clean([abs |-> a.abs, segs |-> a.segs \o b.segs])
\* strings.TrimPrefix(path, "./")
TrimDotSlash(path) ==
    IF ~path.abs /\ Len(path.segs) > 1 /\ path.segs[1] = "."
    THEN [path EXCEPT !.segs = Tail(@)]
    ELSE path

\* the organized directory New gives the Organizer
organizedDirOf(cfg) ==
    IF cfg.OrganizedDir = EmptyPath
    THEN Join(cfg.BaseDir, RelPath(<<"library-organized">>))
    ELSE IF ~IsAbs(cfg.OrganizedDir)
         THEN Join(cfg.BaseDir, TrimDotSlash(cfg.OrganizedDir))
         ELSE cfg.OrganizedDir

\* the file the operating system opens for a path: a relative one is taken
\* from the working directory
Resolve(cwd, path) == IF IsAbs(path) THEN Clean(path) ELSE Join(cwd, path)
\* the file is in the directory or below it
Under(file, dir) ==
    /\ Len(file.segs) > Len(dir.segs)
    /\ SubSeq(file.segs, 1, Len(dir.segs)) = dir.segs

\* cwd is the working directory, cfg the Config given to New, organizedDir
\* the field of the Organizer, written the files Run has copied to
OdIdle == [pc |-> "idle", cwd |-> AbsPath(<<"app">>),
           cfg |-> [BaseDir |-> EmptyPath, OrganizedDir |-> EmptyPath],
           organizedDir |-> EmptyPath, written |-> {}]

(***************************************************************************)
(* unrestrictLinks: the fan-out and its mutex                              *)
(***************************************************************************)
MaxMissing == 3
NoTask == 0
\* mu.Lock with a mutex that lets everyone in
muLockOpen(mu) == TRUE
\* mu.Lock returns when nobody holds the mutex
muLock(mu) == mu = NoTask

\* what a task leaves in results, failed and queued, given what it found there
RecordOutcome(seen, ml, err) ==
    IF err # NoError
    THEN [seen EXCEPT !.failed = Append(@, ml.link),
                      !.queued = IF isRetryableError(err) THEN @ + 1 ELSE @]
    ELSE [seen EXCEPT !.results = Append(@, [Link |-> ml.link])]

\* links are the missing links, one task each; task[i] tells where task i is,
\* err[i] what its UnrestrictLink returned, seen[i] what it read of the
\* shared variables; mu is the task holding the mutex
FoIdle == [pc |-> "idle", links |-> <<>>, task |-> <<>>, err |-> <<>>, seen |-> <<>>,
           mu |-> NoTask, shared |-> [results |-> <<>>, failed |-> <<>>, queued |-> 0]]

(***************************************************************************)
(* Run, Step 6: the torrents of the failed links                           *)
(***************************************************************************)
\* torrents are the downloaded torrents, outcome what UnrestrictLink
\* returned for each missing pair of a torrent and a link, failed what
\* unrestrictLinks returned, passed the torrents given to RepairTorrents
FfIdle == [pc |-> "idle", torrents |-> <<>>, outcome |-> <<>>, failed |-> <<>>,
           repair |-> TRUE, dryRun |-> FALSE, passed |-> <<>>]

(***************************************************************************)
(* retry.Queue                                                             *)
(***************************************************************************)
RetryItem(link, tid, count, etype, emsg) ==
    [Link |-> link, TorrentID |-> tid, RetryCount |-> count, ErrorType |-> etype,
     LastError |-> emsg]

\* the position of the first item of a link, 0 when there is none
QueueIndex(q, link) ==
    IF \E i \in DOMAIN q : q[i].Link = link
    THEN CHOOSE i \in DOMAIN q : q[i].Link = link /\ \A j \in 1..(i - 1) : q[j].Link # link
    ELSE 0

QueueLinks(q) == {q[i].Link : i \in DOMAIN q}

\* an Add that appends whether the link is queued or not
QueueAddAppending(q, link, tid, etype, emsg) ==
    Append(q, RetryItem(link, tid, 0, etype, emsg))

QueueAdd(q, link, tid, etype, emsg) ==
    LET i == QueueIndex(q, link)
    IN  IF i # 0
        THEN [q EXCEPT ![i].RetryCount = @ + 1, ![i].LastError = emsg]
        ELSE Append(q, RetryItem(link, tid, 0, etype, emsg))

\* a Remove that drops the last item in place of the one found
QueueRemoveLast(q, link) == IF QueueIndex(q, link) = 0 THEN q ELSE SubSeq(q, 1, Len(q) - 1)

\* the found item is replaced by the last one and the slice is truncated
QueueRemove(q, link) ==
    LET i == QueueIndex(q, link)
        n == Len(q)
    IN  IF i = 0 THEN q
        ELSE [j \in 1..(n - 1) |-> IF j = i THEN q[n] ELSE q[j]]

IncrementRetry(q, link) ==
    LET i == QueueIndex(q, link)
    IN  IF i = 0 THEN q ELSE [q EXCEPT ![i].RetryCount = @ + 1]

\* Clear: a new, empty slice
QueueClear == <<>>

MaxRetryCount == 2
QueueMessages == {"HTTP 503", "HTTP 429"}
ErrorTypeOf(emsg) == IF emsg = "HTTP 503" THEN "503" ELSE "429"

\* items is the slice of the queue; op, link and emsg name the last
\* operation and its arguments
RqIdle == [pc |-> "idle", items |-> <<>>, op |-> "none", link |-> "", emsg |-> ""]

(***************************************************************************)
(* The provider                                                            *)
(***************************************************************************)
Torrent(id) ==
    [ID |-> id, Filename |-> HashName(rdTorrents[id].Hash), Hash |-> rdTorrents[id].Hash,
     Status |-> rdTorrents[id].Status, Links |-> HashLinks(rdTorrents[id].Hash)]

\* the torrents of the account in the order the provider lists them
RECURSIVE TorrentsFrom(_)
TorrentsFrom(id) ==
    IF id > MaxTorrentId + 1 THEN <<>>
    ELSE (IF id \in DOMAIN rdTorrents THEN <<Torrent(id)>> ELSE <<>>) \o TorrentsFrom(id + 1)

AllTorrents == TorrentsFrom(1)

IsDownloaded(t) == t.Status = "downloaded"
IsDead(t) == t.Status = "dead"

\* GetTorrents without error: the downloaded and the dead torrents
GetTorrentsDownloaded == SelectSeq(AllTorrents, IsDownloaded)
GetTorrentsDead == SelectSeq(AllTorrents, IsDead)

Download(l, g) ==
    [Link |-> l, Download |-> UrlOf(l, g), Filename |-> LinkFilename(l),
     Filesize |-> LinkFilesize(l), Generated |-> g, Streamable |-> 1]

\* every download of the account
AllDownloads == {Download(l, g) : l \in Links, g \in 1..MaxUrl} 
\* those the provider holds
RdDownloadList == {d \in AllDownloads : d.Generated <= rdDownloads[d.Link]}

IsStreamable(d) == d.Streamable = 1

\* deduplicateDownloads, the loop over downloads[i..]: linkMap afterwards
RECURSIVE DedupLoop(_, _, _)
DedupLoop(linkMap, ds, i) ==
    IF i > Len(ds) THEN linkMap
    ELSE DedupLoop(IF ds[i].Link \notin DOMAIN linkMap
                      \/ ds[i].Generated > linkMap[ds[i].Link].Generated
                   THEN [l \in DOMAIN linkMap \cup {ds[i].Link} |->
                            IF l = ds[i].Link THEN ds[i] ELSE linkMap[l]]
                   ELSE linkMap,
                   ds, i + 1)

\* deduplicateDownloads: its result, keyed by link
deduplicateDownloads(ds) == DedupLoop(<<>>, ds, 1)

\* a GetDownloads that deduplicates the whole list and then drops what is not
\* streamable
GetDownloadsFilterLast(all) ==
    LET m == deduplicateDownloads(all)
    IN  [l \in {k \in DOMAIN m : IsStreamable(m[k])} |-> m[l]]

\* GetDownloads once every page has been fetched into allDownloads
GetDownloadsOf(all) == deduplicateDownloads(SelectSeq(all, IsStreamable))

\* GetDownloads without error, as the link -> download map Run builds from it
GetDownloads == GetDownloadsOf(SetToSeq(RdDownloadList))

\* the page size, 5000 in the code
PageLimit == 2
MaxList == 3
GeneratedTimes == {1, 2}

\* what the provider's list may hold: per link several downloads, generated
\* at the same or at different times, streamable or not
ProviderDownloads ==
    {[Download(l, g) EXCEPT !.Generated = t, !.Streamable = s] :
        l \in {"l1", "l2"}, g \in 1..MaxUrl, t \in GeneratedTimes, s \in {0, 1}}

DlIdle == [pc |-> "idle", provider |-> <<>>, all |-> <<>>, offset |-> 0, result |-> <<>>]

\* the page the provider returns for an offset
DownloadsPage(list, offset) == Slice(list, offset + 1, Min2(offset + PageLimit, Len(list)))

\* the download behind a URL
DownloadOf(url) == Download(url[1], url[2])

\* a successful unrestrict generates a new download of the link; the newest one
\* is handed out again once MaxUrl of them exist
UnrestrictGens(l) ==
    Min2(rdDownloads[l] + 1, MaxUrl)

Remote == [torrents |-> rdTorrents, downloads |-> rdDownloads]

(***************************************************************************)
(* sync.Service.Run: one cycle, phase by phase                             *)
(***************************************************************************)
RunResult ==
    [TorrentsTotal |-> 0, TorrentsDownloaded |-> 0, TorrentsDead |-> 0, TorrentsRepaired |-> 0,
     DownloadsTotal |-> 0, DownloadsAfter |-> 0, LinksUnrestricted |-> 0, LinksFailed |-> 0,
     LinksQueued |-> 0, STRMAdded |-> 0, STRMUpdated |-> 0, STRMDeleted |-> 0,
     STRMSkipped |-> 0]

RetryStats == [Succeeded |-> 0, Failed |-> 0, MaxedOut |-> 0]

\* items is the queue and saved its file; before is the queue at the call,
\* snapshot the links of the copy GetAll gave, idx the place in it, torrents
\* the ids of the torrents passed in, errs what UnrestrictLink gave for each
\* item examined so far, NotCalled where it was not called
NotCalled == [kind |-> "notcalled", StatusCode |-> 0, Code |-> ""]
DrIdle ==
    [pc |-> "idle", items |-> <<>>, saved |-> <<>>, before |-> <<>>, snapshot |-> <<>>,
     idx |-> 1, torrents |-> {}, stats |-> RetryStats, errs |-> <<>>]

NoRemote == [torrents |-> <<>>, downloads |-> <<>>]
NoCall == [phase |-> "none", link |-> "", path |-> <<>>, err |-> NoError, url |-> <<>>]

\* Step 7: the candidates
videoExtensions ==
    {<<".", "m", "k", "v">>, <<".", "m", "p", "4">>, <<".", "a", "v", "i">>,
     <<".", "m", "o", "v">>, <<".", "w", "m", "v">>, <<".", "f", "l", "v">>,
     <<".", "m", "4", "v">>, <<".", "w", "e", "b", "m">>, <<".", "m", "p", "g">>,
     <<".", "m", "p", "e", "g">>, <<".", "t", "s">>, <<".", "m", "2", "t", "s">>}

subtitleExtensions ==
    {<<".", "s", "r", "t">>, <<".", "a", "s", "s">>, <<".", "s", "s", "a">>,
     <<".", "v", "t", "t">>, <<".", "s", "u", "b">>, <<".", "i", "d", "x">>,
     <<".", "s", "m", "i">>, <<".", "s", "b", "v">>}

isVideo(filename) == ToLower(Ext(filename)) \in videoExtensions
isSubtitle(filename) == ToLower(Ext(filename)) \in subtitleExtensions

\* a buildCandidatesInto that applies the size floor to every file
KeepsDownloadAboveFloor(d) ==
    /\ d.Filesize >= MinFileSizeBytes
    /\ (isVideo(d.Filename) \/ isSubtitle(d.Filename))

\* whether buildCandidatesInto keeps a download
KeepsDownload(d) ==
    /\ ~(isVideo(d.Filename) /\ d.Filesize < MinFileSizeBytes)
    /\ (isVideo(d.Filename) \/ isSubtitle(d.Filename))

RECURSIVE CandidatesOf(_, _, _)
CandidatesOf(t, i, dmap) ==
    IF i > Len(t.Links) THEN <<>>
    ELSE (IF t.Links[i] \in DOMAIN dmap /\ KeepsDownload(dmap[t.Links[i]])
          THEN <<STRMCandidate(t.ID, t.Filename, dmap[t.Links[i]].Filename,
                               dmap[t.Links[i]].Download, dmap[t.Links[i]].Link,
                               dmap[t.Links[i]].Filesize)>>
          ELSE <<>>)
         \o CandidatesOf(t, i + 1, dmap)

RECURSIVE buildCandidatesInto(_, _, _)
buildCandidatesInto(ts, i, dmap) ==
    IF i > Len(ts) THEN <<>>
    ELSE CandidatesOf(ts[i], 1, dmap) \o buildCandidatesInto(ts, i + 1, dmap)

\* the (torrent, link) pairs the loops reach past the lookup in the download
\* map, in the order they reach them
RECURSIVE MatchedOf(_, _, _)
MatchedOf(t, i, dmap) ==
    IF i > Len(t.Links) THEN <<>>
    ELSE (IF t.Links[i] \in DOMAIN dmap
          THEN <<[TorrentID |-> t.ID, download |-> dmap[t.Links[i]]]>> ELSE <<>>)
         \o MatchedOf(t, i + 1, dmap)

RECURSIVE MatchedPairs(_, _, _)
MatchedPairs(ts, i, dmap) ==
    IF i > Len(ts) THEN <<>>
    ELSE MatchedOf(ts[i], 1, dmap) \o MatchedPairs(ts, i + 1, dmap)

\* the first filter and, for a pair that passes it, the second
IsFilteredSmall(pair) ==
    isVideo(pair.download.Filename) /\ pair.download.Filesize < MinFileSizeBytes

IsFilteredOther(pair) ==
    /\ ~IsFilteredSmall(pair)
    /\ ~isVideo(pair.download.Filename) /\ ~isSubtitle(pair.download.Filename)

\* the candidateStats buildCandidatesInto fills in next to its result
candidateStats(ts, dmap, cands) ==
    [Candidates    |-> Len(cands),
     FilteredSmall |-> Len(SelectSeq(MatchedPairs(ts, 1, dmap), IsFilteredSmall)),
     FilteredOther |-> Len(SelectSeq(MatchedPairs(ts, 1, dmap), IsFilteredOther))]

BcIdle == [pc |-> "idle", torrents |-> <<>>, downloadMap |-> <<>>, candidates |-> <<>>,
           stats |-> [Candidates |-> 0, FilteredSmall |-> 0, FilteredOther |-> 0]]

\* the counts of a RunResult that a dry run and a real run both fill in
Report(r, a, u, d, k) == [Repaired |-> r, Added |-> a, Updated |-> u, Deleted |-> d, Skipped |-> k]

NoReport == Report(0, 0, 0, 0, 0)

ReportOf(res) ==
    Report(res.TorrentsRepaired, res.STRMAdded, res.STRMUpdated, res.STRMDeleted, res.STRMSkipped)

\* what Run(true) returns in the present state when its three fetches succeed:
\* every dead torrent counts as repaired, no link is unrestricted, and Sync
\* counts without writing
DryRunReport ==
    LET cands == buildCandidatesInto(GetTorrentsDownloaded, 1, GetDownloads)
        res   == SyncOutcome(files, dirs, rootExists, outputDirClean, tracking, cands, TRUE,
                             now).result
    IN  Report(IF cfgRepair THEN Len(GetTorrentsDead) ELSE 0,
               res.Added, res.Updated, res.Deleted, res.Skipped)

\* the last cycle ran to its end and was no dry run
LastCycleComplete == pc = "idle" /\ "done" \in phases /\ ~dryRun

\* a new Run: its locals are fresh, and nothing has been observed of it yet
BeginCycle(dry) ==
    /\ pc = "idle"
    /\ cycles < MaxCycles
    /\ cycles' = cycles + 1
    /\ dryRun' = dry
    /\ missing' = <<>>
    /\ taskState' = <<>>
    /\ results' = <<>>
    /\ failed' = <<>>
    /\ queued' = 0
    /\ refreshList' = <<>>
    /\ refreshIdx' = 1
    /\ lastOp' = "none"
    /\ lastSync' = NoSync
    /\ lastExpired' = {}
    /\ callLog' = {}
    /\ lastCall' = NoCall
    /\ twoCycle' = [prev |-> IF LastCycleComplete THEN twoCycle.cur ELSE NoRemote,
                    cur  |-> Remote,
                    dry  |-> DryRunReport,
                    enqPrev |-> twoCycle.enq,
                    enq  |-> {},
                    maxed |-> {},
                    refreshed |-> twoCycle.refreshed]
    /\ UNCHANGED envLeft

\* Step 3 begins: RepairTorrents(dead, dryRun) when enabled and there are dead torrents
EnterRepair(deadList) ==
    /\ repairIdx' = 1
    /\ repaired' = 0
    /\ IF cfgRepair /\ Len(deadList) > 0
       THEN pc' = "repair" /\ repairList' = deadList
       ELSE pc' = "downloads" /\ repairList' = <<>>

\* Step 1 succeeds; Step 2 (the retry drain) begins unless this is a dry run
StartRun ==
    \E dry \in BOOLEAN :
        /\ BeginCycle(dry)
        /\ phases' = {"torrents"}
        /\ runErr' = ""
        /\ downloaded' = GetTorrentsDownloaded
        /\ dead' = GetTorrentsDead
        /\ runResult' = [RunResult EXCEPT !.TorrentsDownloaded = Len(GetTorrentsDownloaded),
                                          !.TorrentsDead = Len(GetTorrentsDead),
                                          !.TorrentsTotal = Len(GetTorrentsDownloaded)
                                                            + Len(GetTorrentsDead)]
        /\ IF ~dry /\ Len(queue) > 0
           THEN /\ pc' = "drain"
                /\ drainItems' = [i \in DOMAIN queue |-> queue[i].Link]
                /\ drainIdx' = 1
                /\ drainStats' = RetryStats
                /\ repairList' = <<>>
                /\ repairIdx' = 1
                /\ repaired' = 0
           ELSE /\ EnterRepair(GetTorrentsDead)
                /\ drainItems' = <<>>
                /\ drainIdx' = 1
                /\ drainStats' = RetryStats
        /\ UNCHANGED <<files, dirs, rootExists, outputDirClean, tracking, trackingFile, now,
                       pathOf, auxVars, remoteVars, queueVars, cfgRepair, downloadMap, candidates>>

\* Step 1 fails: Run returns the error
GetTorrentsFails ==
    \E dry \in BOOLEAN :
        /\ BeginCycle(dry)
        /\ phases' = {"torrentsFailed"}
        /\ runErr' = "fetching torrents"
        /\ downloaded' = <<>>
        /\ dead' = <<>>
        /\ runResult' = RunResult
        /\ drainItems' = <<>>
        /\ drainIdx' = 1
        /\ drainStats' = RetryStats
        /\ repairList' = <<>>
        /\ repairIdx' = 1
        /\ repaired' = 0
        /\ UNCHANGED <<files, dirs, rootExists, outputDirClean, tracking, trackingFile, now,
                       pathOf, auxVars, remoteVars, queueVars, cfgRepair, pc, downloadMap, candidates>>

Call(phase, link, path, err, url) ==
    [phase |-> phase, link |-> link, path |-> path, err |-> err, url |-> url]

\* one UnrestrictLink call as the provider answers it: lastCall' tells how
UnrestrictLink(phase, link, path, count) ==
    /\ callLog' = callLog \cup {[phase |-> phase, link |-> link, count |-> count]}
    /\ \/ \E g \in {UnrestrictGens(link)} :
             /\ rdDownloads' = [rdDownloads EXCEPT ![link] = g]
             /\ lastCall' = Call(phase, link, path, NoError, UrlOf(link, g))
       \/ \E err \in UnrestrictErrors(link) :
             /\ lastCall' = Call(phase, link, path, err, <<>>)
             /\ UNCHANGED rdDownloads

\* a drain that lets an item have one attempt more
MaxedOutLate(item) == item.RetryCount > MaxRetryAttempts

\* the first check processRetryQueue makes of an item
MaxedOut(item) == item.RetryCount >= MaxRetryAttempts

\* what processRetryQueue does with one item of its copy, given what
\* UnrestrictLink returns when it comes to be called
processItem(q, item, torrents, err) ==
    IF MaxedOut(item) THEN QueueRemove(q, item.Link)
    ELSE IF item.TorrentID \notin torrents THEN QueueRemove(q, item.Link)
    ELSE IF err = NoError THEN QueueRemove(q, item.Link)
    ELSE IF isRetryableError(err) THEN IncrementRetry(q, item.Link)
    ELSE QueueRemove(q, item.Link)

processStats(st, item, torrents, err) ==
    IF MaxedOut(item) THEN [st EXCEPT !.MaxedOut = @ + 1]
    ELSE IF item.TorrentID \notin torrents THEN st
    ELSE IF err = NoError THEN [st EXCEPT !.Succeeded = @ + 1]
    ELSE [st EXCEPT !.Failed = @ + 1]

\* processRetryQueue, one item of the snapshot
DrainItem ==
    /\ pc = "drain"
    /\ drainIdx <= Len(drainItems)
    /\ LET link == drainItems[drainIdx]
           item == queue[QueueIndex(queue, link)]
       IN  IF MaxedOut(item)
           THEN /\ queue' = QueueRemove(queue, link)
                /\ drainStats' = [drainStats EXCEPT !.MaxedOut = @ + 1]
                /\ twoCycle' = [twoCycle EXCEPT !.maxed = @ \cup {link}]
                /\ UNCHANGED <<rdDownloads, lastCall, callLog>>
           ELSE IF \A i \in DOMAIN downloaded : downloaded[i].ID # item.TorrentID
           THEN /\ queue' = QueueRemove(queue, link)
                /\ UNCHANGED <<drainStats, rdDownloads, lastCall, callLog, twoCycle>>
           ELSE /\ UnrestrictLink("drain", link, <<>>, item.RetryCount)
                /\ UNCHANGED twoCycle
                /\ IF lastCall'.err = NoError
                   THEN /\ queue' = QueueRemove(queue, link)
                        /\ drainStats' = [drainStats EXCEPT !.Succeeded = @ + 1]
                   ELSE /\ queue' = IF isRetryableError(lastCall'.err)
                                    THEN IncrementRetry(queue, link)
                                    ELSE QueueRemove(queue, link)
                        /\ drainStats' = [drainStats EXCEPT !.Failed = @ + 1]
    /\ drainIdx' = drainIdx + 1
    /\ UNCHANGED <<strmVars, rdTorrents, rdNextId, retryFile, cfgRepair, runVars, fanoutVars,
                   drainItems, repairVars, refreshVars, phases, cycles, envLeft>>

\* processRetryQueue saves the queue and returns; Step 3 begins
DrainDone ==
    /\ pc = "drain"
    /\ drainIdx > Len(drainItems)
    /\ retryFile' = queue
    /\ phases' = phases \cup {"drain"}
    /\ EnterRepair(dead)
    /\ UNCHANGED <<strmVars, remoteVars, queue, cfgRepair, dryRun, downloaded, dead,
                   downloadMap, missing, candidates, runResult, runErr, fanoutVars, drainVars,
                   refreshVars, lastCall, callLog, cycles, envLeft, twoCycle>>

(***************************************************************************)
(* repair.Service                                                          *)
(***************************************************************************)
WithoutTorrent(ts, id) == [i \in DOMAIN ts \ {id} |-> ts[i]]

WithTorrent(ts, id, hash, status) ==
    [i \in DOMAIN ts \cup {id} |-> IF i = id THEN [Hash |-> hash, Status |-> status] ELSE ts[i]]

\* RepairTorrent(t, dryRun) of the torrent RepairTorrents has reached: AddMagnet
\* may fail; SelectVideoFiles may fail, and then the new torrent is deleted
\* again; deleting the original may fail, which is only logged
RepairTorrent ==
    /\ pc \in {"repair", "repairFailed"}
    /\ repairIdx <= Len(repairList)
    /\ LET t == repairList[repairIdx]
       IN  IF dryRun
           THEN /\ repaired' = repaired + 1
                /\ UNCHANGED <<rdTorrents, rdNextId>>
           ELSE \/ /\ repaired' = repaired              \* AddMagnet fails
                   /\ UNCHANGED <<rdTorrents, rdNextId>>
                \/ /\ rdNextId <= MaxTorrentId          \* SelectVideoFiles fails
                   /\ rdNextId' = rdNextId + 1
                   /\ repaired' = repaired
                   /\ UNCHANGED rdTorrents
                \/ /\ rdNextId <= MaxTorrentId
                   /\ rdNextId' = rdNextId + 1
                   /\ repaired' = repaired + 1
                   /\ \E status \in {"downloaded", "downloading"}, deleted \in BOOLEAN :
                         rdTorrents' = WithTorrent(IF deleted THEN WithoutTorrent(rdTorrents, t.ID)
                                                   ELSE rdTorrents,
                                                   rdNextId, t.Hash, status)
    /\ repairIdx' = repairIdx + 1
    /\ UNCHANGED <<strmVars, rdDownloads, queueVars, cfgRepair, runVars, fanoutVars, drainVars,
                   repairList, refreshVars, histVars>>

\* RepairTorrents(dead, dryRun) returns: the torrents are fetched again when
\* one was repaired
RepairDone ==
    /\ pc = "repair"
    /\ repairIdx > Len(repairList)
    /\ runResult' = [runResult EXCEPT !.TorrentsRepaired = repaired]
    /\ pc' = IF repaired > 0 /\ ~dryRun THEN "refetch" ELSE "downloads"
    /\ phases' = phases \cup {"repair"}
    /\ UNCHANGED <<strmVars, remoteVars, queueVars, cfgRepair, dryRun, downloaded, dead,
                   downloadMap, missing, candidates, runErr, fanoutVars, drainVars, repairVars,
                   refreshVars, lastCall, callLog, cycles, envLeft, twoCycle>>

\* the second GetTorrents succeeds
RefetchTorrents ==
    /\ pc = "refetch"
    /\ downloaded' = GetTorrentsDownloaded
    /\ pc' = "downloads"
    /\ phases' = phases \cup {"refetch"}
    /\ UNCHANGED <<strmVars, remoteVars, queueVars, cfgRepair, dryRun, dead, downloadMap,
                   missing, candidates, runResult, runErr, fanoutVars, drainVars, repairVars,
                   refreshVars, lastCall, callLog, cycles, envLeft, twoCycle>>

\* the second GetTorrents fails: a warning is logged, downloaded is now nil,
\* and Run goes on
RefetchTorrentsFails ==
    /\ pc = "refetch"
    /\ downloaded' = <<>>
    /\ pc' = "downloads"
    /\ phases' = phases \cup {"refetchFailed"}
    /\ UNCHANGED <<strmVars, remoteVars, queueVars, cfgRepair, dryRun, dead, downloadMap,
                   missing, candidates, runResult, runErr, fanoutVars, drainVars, repairVars,
                   refreshVars, lastCall, callLog, cycles, envLeft, twoCycle>>

(***************************************************************************)
(* Steps 4 to 6: downloads, matching, the unrestrict fan-out               *)
(***************************************************************************)
MissingLink(t, link) == [torrent |-> t, link |-> link]

\* the links of one torrent that have no download
RECURSIVE MissingOf(_, _, _)
MissingOf(t, i, dmap) ==
    IF i > Len(t.Links) THEN <<>>
    ELSE (IF t.Links[i] \in DOMAIN dmap THEN <<>> ELSE <<MissingLink(t, t.Links[i])>>)
         \o MissingOf(t, i + 1, dmap)

RECURSIVE MissingLinks(_, _, _)
MissingLinks(ts, i, dmap) ==
    IF i > Len(ts) THEN <<>>
    ELSE MissingOf(ts[i], 1, dmap) \o MissingLinks(ts, i + 1, dmap)

\* Step 4 succeeds; Step 5; Step 6 begins when links are missing (in a dry
\* run unrestrictLinks returns at once)
FetchDownloads ==
    /\ pc = "downloads"
    /\ \E dmap \in {GetDownloads} : \E miss \in {MissingLinks(downloaded, 1, dmap)} :
          /\ downloadMap' = dmap
          /\ missing' = miss
          /\ runResult' = [runResult EXCEPT !.DownloadsTotal = Cardinality(DOMAIN dmap)]
          /\ IF Len(miss) > 0 /\ ~dryRun
             THEN /\ pc' = "fanout"
                  /\ taskState' = [i \in DOMAIN miss |-> "pending"]
                  /\ results' = <<>>
                  /\ failed' = <<>>
                  /\ queued' = 0
             ELSE /\ pc' = "sync"
                  /\ UNCHANGED fanoutVars
    /\ phases' = phases \cup {"downloads"}
    /\ UNCHANGED <<strmVars, remoteVars, queueVars, cfgRepair, dryRun, downloaded, dead,
                   candidates, runErr, drainVars, repairVars, refreshVars, lastCall, callLog,
                   cycles, envLeft, twoCycle>>

\* Step 4 fails: Run returns the error
FetchDownloadsFails ==
    /\ pc = "downloads"
    /\ pc' = "idle"
    /\ runErr' = "fetching downloads"
    /\ phases' = phases \cup {"downloadsFailed"}
    /\ UNCHANGED <<strmVars, remoteVars, queueVars, cfgRepair, dryRun, downloaded, dead,
                   downloadMap, missing, candidates, runResult, fanoutVars, drainVars,
                   repairVars, refreshVars, lastCall, callLog, cycles, envLeft, twoCycle>>

\* addToRetryQueue
addToRetryQueue(q, link, t, err) ==
    IF isRetryableError(err) THEN QueueAdd(q, link, t.ID, "503", err.Code) ELSE q

\* one task of the pool: UnrestrictLink, then, holding the mutex, the result
\* is recorded. The tasks run in any order; the calls of two tasks touch the
\* provider's downloads of their own links only.
UnrestrictTask ==
    /\ pc = "fanout"
    /\ \E i \in DOMAIN taskState :
          /\ taskState[i] = "pending"
          /\ UnrestrictLink("fanout", missing[i].link, <<>>, 0)
          /\ taskState' = [taskState EXCEPT ![i] = "done"]
          /\ IF lastCall'.err # NoError
             THEN /\ queue' = addToRetryQueue(queue, missing[i].link, missing[i].torrent,
                                              lastCall'.err)
                  /\ queued' = IF isRetryableError(lastCall'.err) THEN queued + 1 ELSE queued
                  /\ failed' = Append(failed, missing[i].link)
                  /\ twoCycle' = IF isRetryableError(lastCall'.err)
                                 THEN [twoCycle EXCEPT !.enq = @ \cup {missing[i].link}]
                                 ELSE twoCycle
                  /\ UNCHANGED results
             ELSE /\ results' = Append(results, DownloadOf(lastCall'.url))
                  /\ UNCHANGED <<queue, queued, failed, twoCycle>>
    /\ UNCHANGED <<strmVars, rdTorrents, rdNextId, retryFile, cfgRepair, runVars, drainVars,
                   repairVars, refreshVars, phases, cycles, envLeft>>

\* a findTorrentsForLinks that looks at the first link of a torrent only
findTorrentsForFirstLinks(ts, failedLinks) ==
    {ts[i] : i \in {j \in DOMAIN ts :
                      /\ Len(ts[j].Links) > 0
                      /\ ts[j].Links[1] \in Range(failedLinks)
                      /\ \A m \in DOMAIN ts : (m > j => ts[m].ID # ts[j].ID)}}

\* findTorrentsForLinks: the torrents that hold a failed link, one per id
findTorrentsForLinks(ts, failedLinks) ==
    {ts[i] : i \in {j \in DOMAIN ts :
                      /\ \E k \in DOMAIN ts[j].Links : ts[j].Links[k] \in Range(failedLinks)
                      /\ \A m \in DOMAIN ts : (m > j => ts[m].ID # ts[j].ID)}}

\* downloadMap[d.Link] = d for every d of ds, in order
RECURSIVE MergeDownloads(_, _, _)
MergeDownloads(dmap, ds, i) ==
    IF i > Len(ds) THEN dmap
    ELSE MergeDownloads([l \in DOMAIN dmap \cup {ds[i].Link} |->
                            IF l = ds[i].Link THEN ds[i] ELSE dmap[l]], ds, i + 1)

\* pool.Wait returns: the queue is saved when it is not empty, the results
\* join the map, and the torrents of the failed links are repaired when enabled
FanoutDone ==
    /\ pc = "fanout"
    /\ \A i \in DOMAIN taskState : taskState[i] = "done"
    /\ retryFile' = IF Len(queue) > 0 THEN queue ELSE retryFile
    /\ runResult' = [runResult EXCEPT !.LinksUnrestricted = Len(results),
                                      !.LinksFailed = Len(failed),
                                      !.LinksQueued = queued]
    /\ downloadMap' = MergeDownloads(downloadMap, results, 1)
    /\ IF Len(failed) > 0 /\ cfgRepair
       THEN \E order \in Perms(findTorrentsForLinks(downloaded, failed)) :
                /\ pc' = "repairFailed"
                /\ repairList' = order
                /\ repairIdx' = 1
                /\ repaired' = 0
       ELSE /\ pc' = "sync"
            /\ UNCHANGED repairVars
    /\ phases' = phases \cup {"fanout"}
    /\ UNCHANGED <<strmVars, remoteVars, queue, cfgRepair, dryRun, downloaded, dead, missing,
                   candidates, runErr, fanoutVars, drainVars, refreshVars, lastCall, callLog,
                   cycles, envLeft, twoCycle>>

\* the second RepairTorrents returns; its counts are dropped
RepairFailedDone ==
    /\ pc = "repairFailed"
    /\ repairIdx > Len(repairList)
    /\ pc' = "sync"
    /\ phases' = phases \cup {"repairFailed"}
    /\ UNCHANGED <<strmVars, remoteVars, queueVars, cfgRepair, dryRun, downloaded, dead,
                   downloadMap, missing, candidates, runResult, runErr, fanoutVars, drainVars,
                   repairVars, refreshVars, lastCall, callLog, cycles, envLeft, twoCycle>>

(***************************************************************************)
(* Steps 7 and 8: candidates and Sync; the organizer; the refresh          *)
(***************************************************************************)
\* Steps 7 and 8 succeed; a dry run ends here
SyncStep ==
    /\ pc = "sync"
    /\ \E cands \in {buildCandidatesInto(downloaded, 1, downloadMap)} :
          /\ candidates' = cands
          /\ Sync(cands, dryRun)
    /\ runResult' = [runResult EXCEPT !.DownloadsAfter = Cardinality(DOMAIN downloadMap),
                                      !.STRMAdded = lastSync'.result.Added,
                                      !.STRMUpdated = lastSync'.result.Updated,
                                      !.STRMDeleted = lastSync'.result.Deleted,
                                      !.STRMSkipped = lastSync'.result.Skipped]
    /\ pc' = IF dryRun THEN "idle" ELSE "organizer"
    /\ phases' = phases \cup (IF dryRun THEN {"sync", "done"} ELSE {"sync"})
    /\ UNCHANGED <<outputDirClean, now, lastExpired, pathOf, auxVars, remoteVars, queueVars, cfgRepair,
                   dryRun, downloaded, dead, downloadMap, missing, runErr, fanoutVars,
                   drainVars, repairVars, refreshVars, lastCall, callLog, cycles, envLeft,
                   twoCycle>>

\* Step 8 fails: Run returns the error
SyncStepFails ==
    /\ pc = "sync"
    /\ candidates' = buildCandidatesInto(downloaded, 1, downloadMap)
    /\ SyncFails(dryRun)
    /\ pc' = "idle"
    /\ runErr' = "syncing STRM files"
    /\ phases' = phases \cup {"syncFailed"}
    /\ UNCHANGED <<outputDirClean, now, lastExpired, pathOf, auxVars, remoteVars, queueVars, cfgRepair,
                   dryRun, downloaded, dead, downloadMap, missing, runResult, fanoutVars,
                   drainVars, repairVars, refreshVars, lastCall, callLog, cycles, envLeft,
                   twoCycle>>

\* runOrganizer, which reads the library and the tracking file and writes its
\* own tree; then refreshExpiringLinks picks the expired records, in the order
\* the map yields them
OrganizerStep ==
    /\ pc = "organizer"
    /\ lastExpired' = GetExpired(tracking, FileExpiryDays, now)
    /\ IF lastExpired' = {}
       THEN /\ pc' = "idle"
            /\ phases' = phases \cup {"organizer", "refresh", "done"}
            /\ UNCHANGED refreshVars
       ELSE /\ pc' = "refresh"
            /\ phases' = phases \cup {"organizer"}
            /\ refreshList' \in Perms(lastExpired')
            /\ refreshIdx' = 1
    /\ UNCHANGED <<files, dirs, rootExists, outputDirClean, tracking, trackingFile, now, lastOp,
                   lastSync, pathOf, auxVars, remoteVars, queueVars, cfgRepair, dryRun, downloaded, dead,
                   downloadMap, missing, candidates, runResult, runErr, fanoutVars, drainVars,
                   repairVars, lastCall, callLog, cycles, envLeft, twoCycle>>

\* refreshExpiringLinks, one expired record; Run returns after the last one
RefreshItem ==
    /\ pc = "refresh"
    /\ refreshIdx <= Len(refreshList)
    /\ LET p   == refreshList[refreshIdx]
           rec == tracking[p]
       IN  /\ UnrestrictLink("refresh", rec.Link, p, 0)
           /\ IF lastCall'.err = NoError
              THEN UpdateSTRM(p, lastCall'.url, rec.Link, rec.TorrentID)
              ELSE UNCHANGED <<files, tracking, trackingFile>>
           /\ twoCycle' = IF lastCall'.err = NoError /\ UpdateSTRMOk(p)
                          THEN [twoCycle EXCEPT !.refreshed = @ \cup {[path |-> p, at |-> now]}]
                          ELSE twoCycle
    /\ refreshIdx' = refreshIdx + 1
    /\ pc' = IF refreshIdx = Len(refreshList) THEN "idle" ELSE "refresh"
    /\ phases' = IF refreshIdx = Len(refreshList) THEN phases \cup {"refresh", "done"} ELSE phases
    /\ UNCHANGED <<dirs, rootExists, outputDirClean, now, lastOp, lastSync, lastExpired, pathOf, auxVars,
                   rdTorrents, rdNextId, queueVars, cfgRepair, dryRun, downloaded, dead,
                   downloadMap, missing, candidates, runResult, runErr, fanoutVars, drainVars,
                   repairVars, refreshList, cycles, envLeft>>

(***************************************************************************)
(* Between cycles: the account's owner and the clock                       *)
(***************************************************************************)
EnvChange ==
    /\ pc = "idle"
    /\ envLeft > 0
    /\ cycles < MaxCycles
    /\ envLeft' = envLeft - 1
    /\ twoCycle' = [prev |-> NoRemote, cur |-> NoRemote, dry |-> NoReport,
                    enqPrev |-> twoCycle.enqPrev, enq |-> twoCycle.enq,
                    maxed |-> twoCycle.maxed, refreshed |-> twoCycle.refreshed]
    /\ \E id \in DOMAIN rdTorrents : rdTorrents' = WithoutTorrent(rdTorrents, id)
    /\ UNCHANGED <<strmVars, rdNextId, rdDownloads, queueVars, cfgRepair, runVars, fanoutVars,
                   drainVars, repairVars, refreshVars, lastCall, phases, callLog, cycles>>

\* time passes until the records written before have expired
Tick ==
    /\ pc = "idle"
    /\ now + FileExpiryDays + 1 <= MaxTime
    /\ cycles < MaxCycles
    /\ now' = now + FileExpiryDays + 1
    /\ UNCHANGED <<files, dirs, rootExists, outputDirClean, tracking, trackingFile, lastOp,
                   lastSync, lastExpired, pathOf, auxVars, cycleVars>>

(***************************************************************************)
(* The specification of the sync cycle                                     *)
(***************************************************************************)
\* the run state between cycles, before the first one
InitRun ==
    /\ pc = "idle"
    /\ dryRun = FALSE
    /\ downloaded = <<>>
    /\ dead = <<>>
    /\ downloadMap = <<>>
    /\ missing = <<>>
    /\ candidates = <<>>
    /\ runResult = RunResult
    /\ runErr = ""
    /\ taskState = <<>>
    /\ results = <<>>
    /\ failed = <<>>
    /\ queued = 0
    /\ drainItems = <<>>
    /\ drainIdx = 1
    /\ drainStats = RetryStats
    /\ repairList = <<>>
    /\ repairIdx = 1
    /\ repaired = 0
    /\ refreshList = <<>>
    /\ refreshIdx = 1
    /\ lastCall = NoCall
    /\ phases = {}
    /\ callLog = {}
    /\ cycles = 0
    /\ twoCycle = [prev |-> NoRemote, cur |-> NoRemote, dry |-> NoReport,
                   enqPrev |-> {}, enq |-> {}, maxed |-> {}, refreshed |-> {}]
    /\ unr = UnrIdle
    /\ dl = DlIdle
    /\ bc = BcIdle
    /\ san = SanIdle
    /\ lim = LimIdle
    /\ watch = WatchIdle
    /\ pool = PoolIdle
    /\ do = DoIdle
    /\ rq = RqIdle
    /\ dr = DrIdle
    /\ gt = GtIdle
    /\ rp = RpIdle
    /\ sv = SvIdle
    /\ org = OrgIdle
    /\ od = OdIdle
    /\ fo = FoIdle
    /\ ff = FfIdle

\* a fresh installation, or a library that holds the file of link l1 since day 0
InitLibrary ==
    \/ /\ files = <<>>
       /\ dirs = {}
       /\ rootExists = FALSE
       /\ tracking = <<>>
    \/ /\ files = (PathA :> Content(UrlOf("l1", 1)))
       /\ dirs = {Dir(PathA)}
       /\ rootExists = TRUE
       /\ tracking = (PathA :> FileTracking(PathA, UrlOf("l1", 1), "l1", 1, 0, 0))

Init ==
    /\ InitPaths
    /\ InitLibrary
    /\ trackingFile = tracking
    /\ outputDirClean = FALSE
    /\ now = 0
    /\ lastOp = "none"
    /\ lastSync = NoSync
    /\ lastExpired = {}
    /\ \E h \in Hashes, s \in {"downloaded", "dead"} :
          /\ rdTorrents = (1 :> [Hash |-> h, Status |-> s])
          /\ queue \in {<<>>, <<RetryItem(HashLinks(h)[1], 1, MaxRetryAttempts - 1, "503",
                                            "server_unavailable_retryable")>>}
    /\ rdNextId = 2
    /\ rdDownloads \in {[l \in Links |-> 0], [l \in Links |-> IF l = "l1" THEN 1 ELSE 0]}
    /\ retryFile = queue
    /\ cfgRepair \in BOOLEAN
    /\ envLeft = MaxEnv
    /\ InitRun

Next ==
    \/ StartRun \/ GetTorrentsFails
    \/ DrainItem \/ DrainDone
    \/ RepairTorrent \/ RepairDone \/ RefetchTorrents \/ RefetchTorrentsFails
    \/ FetchDownloads \/ FetchDownloadsFails
    \/ UnrestrictTask \/ FanoutDone \/ RepairFailedDone
    \/ SyncStep \/ SyncStepFails \/ OrganizerStep \/ RefreshItem
    \/ EnvChange \/ Tick

Spec == Init /\ [][Next]_vars

(***************************************************************************)
(* The strm service on an arbitrary output tree and tracking store         *)
(***************************************************************************)
SeqsUpTo(S, n) == UNION {[1..k -> S] : k \in 0..n}

\* two spellings of one folder: both sanitize to the same directory
StrmCandidates ==
    {STRMCandidate(1, <<"T", "_", "1">>, LinkFilename(l), UrlOf(l, g), l, LinkFilesize(l)) :
        l \in Links, g \in 1..MaxUrl}
    \cup {STRMCandidate(2, <<"T", " ", "1">>, LinkFilename("l1"), UrlOf("l1", g), "l1",
                        LinkFilesize("l1")) : g \in 1..MaxUrl}

\* a .strm file in the root under an upper-case extension, and a file that is no .strm
PathUpper == <<"o", ".", "S", "T", "R", "M">>
PathOther == PathJoin(Dir(PathA), <<"k", ".", "t", "x", "t">>)

Padded(url) == [url |-> url, pad |-> TRUE]

StrmDiskContents(p) ==
    CASE p = PathA -> {Content(UrlOf("l1", 1)), Padded(UrlOf("l1", 1)), Content(UrlOf("l1", 2))}
      [] p = PathB -> {Content(UrlOf("l3", 1)), Content(UrlOf("l1", 1))}
      [] OTHER    -> {Content(UrlOf("l1", 1))}

StrmDisks ==
    UNION {{f \in [S -> UNION {StrmDiskContents(p) : p \in S}] :
                \A p \in S : f[p] \in StrmDiskContents(p)} :
           S \in SUBSET {PathA, PathB, PathUpper, PathOther}}

\* records written at day 0 or today, never checked, checked at day 0 or today
StrmRecords(p) ==
    {FileTracking(p, UrlOf("l1", 1), "l1", 1, c, k) :
        c \in {0, MaxTime}, k \in {ZeroTime, 0, MaxTime}}

StrmTrackings ==
    UNION {{d \in [S -> UNION {StrmRecords(p) : p \in S}] :
                \A p \in S : /\ d[p].RelativePath = p
                             /\ d[p].LastChecked \in {ZeroTime} \cup (d[p].CreatedAt..MaxTime)
                             /\ (p = PathB => d[p].LastChecked = d[p].CreatedAt)} :
           S \in SUBSET {PathA, PathB}}

\* no provider, no queue, no cycle
InitQuiet ==
    /\ rdTorrents = <<>>
    /\ rdNextId = 1
    /\ rdDownloads = [l \in Links |-> 0]
    /\ queue = <<>>
    /\ retryFile = <<>>
    /\ cfgRepair = FALSE
    /\ envLeft = 0
    /\ InitRun

InitStrm ==
    /\ InitPaths
    /\ files \in StrmDisks
    /\ dirs \in {({Dir(p) : p \in DOMAIN files} \ {<<>>}) \cup X : X \in SUBSET {Dir(PathA)}}
    /\ rootExists \in (IF DOMAIN files = {} /\ dirs = {} THEN BOOLEAN ELSE {TRUE})
    /\ outputDirClean \in BOOLEAN
    /\ tracking \in StrmTrackings
    /\ trackingFile = tracking
    /\ now = MaxTime
    /\ lastOp = "none"
    /\ lastSync = NoSync
    /\ lastExpired = {}
    /\ InitQuiet

SyncCall ==
    /\ lastOp = "none"
    /\ \E cands \in SeqsUpTo(StrmCandidates, MaxCands), dry \in BOOLEAN : Sync(cands, dry)
    /\ UNCHANGED <<outputDirClean, now, lastExpired, pathOf, auxVars, cycleVars>>

SyncCallFails ==
    /\ lastOp = "none"
    /\ \E dry \in BOOLEAN : SyncFails(dry)
    /\ UNCHANGED <<outputDirClean, now, lastExpired, pathOf, auxVars, cycleVars>>

GetExpiredFiles == GetExpired(tracking, FileExpiryDays, now)

GetExpiredFilesCall ==
    /\ lastOp = "none"
    /\ lastExpired' = GetExpiredFiles
    /\ lastOp' = "expired"
    /\ UNCHANGED <<files, dirs, rootExists, outputDirClean, tracking, trackingFile, now,
                   lastSync, pathOf, auxVars, cycleVars>>

UpdateSTRMCall ==
    /\ lastOp = "none"
    /\ \E p \in DOMAIN tracking, g \in 1..MaxUrl :
          UpdateSTRM(p, UrlOf(tracking[p].Link, g), tracking[p].Link, tracking[p].TorrentID)
    /\ lastOp' = "update"
    /\ UNCHANGED <<dirs, rootExists, outputDirClean, now, lastSync, lastExpired, pathOf, auxVars,
                   cycleVars>>

NextStrm == SyncCall \/ SyncCallFails \/ GetExpiredFilesCall \/ UpdateSTRMCall

SpecStrm == InitStrm /\ [][NextStrm]_vars

(***************************************************************************)
(* One UnrestrictLink call against a provider that answers as it likes     *)
(***************************************************************************)
InitUnrestrict ==
    /\ InitPaths
    /\ InitLibrary
    /\ trackingFile = tracking
    /\ outputDirClean = FALSE
    /\ now = 0
    /\ lastOp = "none"
    /\ lastSync = NoSync
    /\ lastExpired = {}
    /\ InitQuiet

\* UnrestrictLink(link) is called
UnrestrictCall ==
    /\ unr.pc = "idle"
    /\ unr' = [UnrIdle EXCEPT !.pc = "request"]
    /\ UNCHANGED <<exceptUnr, cycleVars>>

\* doRequest: the request goes out and the provider answers it
UnrestrictRequest ==
    /\ unr.pc = "request"
    /\ \E status \in ProviderStatuses, code \in ErrorCodes :
          unr' = AfterAnswer(unr, status, code)
    /\ UNCHANGED <<exceptUnr, cycleVars>>

NextUnrestrict == UnrestrictCall \/ UnrestrictRequest

SpecUnrestrict == InitUnrestrict /\ [][NextUnrestrict]_vars

(***************************************************************************)
(* One GetDownloads call against a provider list of any content            *)
(***************************************************************************)
InitDownloads == InitUnrestrict

\* GetDownloads is called; the provider holds some list
GetDownloadsCall ==
    /\ dl.pc = "idle"
    /\ \E list \in SeqsUpTo(ProviderDownloads, MaxList) :
          dl' = [DlIdle EXCEPT !.pc = "page", !.provider = list]
    /\ UNCHANGED <<exceptDl, cycleVars>>

\* one round of the loop: the page at the offset is fetched and appended; an
\* empty page (or 204) and a short page end the loop
GetDownloadsPage ==
    /\ dl.pc = "page"
    /\ \E batch \in {DownloadsPage(dl.provider, dl.offset)} :
          dl' = IF Len(batch) = 0
                THEN [dl EXCEPT !.pc = "filter"]
                ELSE [dl EXCEPT !.all = @ \o batch,
                                !.offset = IF Len(batch) < PageLimit THEN @ ELSE @ + Len(batch),
                                !.pc = IF Len(batch) < PageLimit THEN "filter" ELSE "page"]
    /\ UNCHANGED <<exceptDl, cycleVars>>

\* the request of a page fails, or its answer is no 200 or cannot be parsed
GetDownloadsPageFails ==
    /\ dl.pc = "page"
    /\ dl' = [dl EXCEPT !.pc = "failed"]
    /\ UNCHANGED <<exceptDl, cycleVars>>

\* the streamable downloads are filtered out and deduplicated
GetDownloadsReturn ==
    /\ dl.pc = "filter"
    /\ dl' = [dl EXCEPT !.pc = "done", !.result = GetDownloadsOf(dl.all)]
    /\ UNCHANGED <<exceptDl, cycleVars>>

NextDownloads ==
    GetDownloadsCall \/ GetDownloadsPage \/ GetDownloadsPageFails \/ GetDownloadsReturn

SpecDownloads == InitDownloads /\ [][NextDownloads]_vars

(***************************************************************************)
(* One buildCandidatesInto call on torrents and downloads of any kind      *)
(***************************************************************************)
\* a video, a video with an upper-case extension, a subtitle, a text file and
\* a file without extension
BuildFilenames ==
    {LinkFilename(l) : l \in Links} \cup {<<"k", ".", "t", "x", "t">>, <<"R", "E", "A", "D">>}

\* just below the floor and at the floor
BuildFilesizes == {MinFileSizeBytes - 1, MinFileSizeBytes}

BuildDownloads(l) ==
    {[Download(l, 1) EXCEPT !.Filename = f, !.Filesize = z] :
        f \in BuildFilenames, z \in BuildFilesizes}

BuildDownloadMaps ==
    UNION {{m \in [S -> UNION {BuildDownloads(l) : l \in S}] : \A l \in S : m[l].Link = l} :
           S \in SUBSET Links}

\* torrents that share links
BuildTorrents ==
    {[ID |-> 1, Filename |-> HashName("h1"), Hash |-> "h1", Status |-> "downloaded",
      Links |-> <<"l1", "l2">>],
     [ID |-> 2, Filename |-> HashName("h2"), Hash |-> "h2", Status |-> "downloaded",
      Links |-> <<"l3">>],
     [ID |-> 3, Filename |-> HashName("h2"), Hash |-> "h2", Status |-> "downloaded",
      Links |-> <<"l2", "l3">>]}

MaxBuildTorrents == 2

InitBuild == InitUnrestrict

\* Run reaches Step 7 with some torrents and some download map
BuildCandidatesCall ==
    /\ bc.pc = "idle"
    /\ \E ts \in SeqsUpTo(BuildTorrents, MaxBuildTorrents), dmap \in BuildDownloadMaps :
          bc' = [BcIdle EXCEPT !.pc = "called", !.torrents = ts, !.downloadMap = dmap]
    /\ UNCHANGED <<exceptBc, cycleVars>>

\* buildCandidatesInto(torrents, downloadMap, candidates[:0], &stats) returns
BuildCandidatesReturn ==
    /\ bc.pc = "called"
    /\ \E cands \in {buildCandidatesInto(bc.torrents, 1, bc.downloadMap)} :
          bc' = [bc EXCEPT !.pc = "done",
                           !.candidates = cands,
                           !.stats = candidateStats(bc.torrents, bc.downloadMap, cands)]
    /\ UNCHANGED <<exceptBc, cycleVars>>

NextBuild == BuildCandidatesCall \/ BuildCandidatesReturn

SpecBuild == InitBuild /\ [][NextBuild]_vars

(***************************************************************************)
(* sanitizeFilename applied to a name and to its own result                *)
(***************************************************************************)
MaxNameLen == 4

\* a letter, a character Step 7 replaces, the separators of Step 4, a space,
\* and what a percent escape is made of
NameChars == {"a", ":", "_", ".", " ", "%", "4", "1"}

\* "A" URL-encoded four times, and a name with two site prefixes
LongNames ==
    {<<"%", "2", "5", "2", "5", "2", "5", "4", "1">>,
     <<"a", ".", "c", "o", "m", "@", "a", ".", "c", "o", "m", "@", "a">>}

SanitizeNames == SeqsUpTo(NameChars, MaxNameLen) \cup LongNames

InitSanitize == InitUnrestrict

\* buildSTRMPath is given a name
SanitizeCall ==
    /\ san.pc = "idle"
    /\ \E name \in SanitizeNames : san' = [SanIdle EXCEPT !.pc = "called", !.name = name]
    /\ UNCHANGED <<exceptSan, cycleVars>>

\* sanitizeFilename(name)
SanitizeOnce ==
    /\ san.pc = "called"
    /\ san' = [san EXCEPT !.pc = "once", !.once = sanitizeFilename(san.name)]
    /\ UNCHANGED <<exceptSan, cycleVars>>

\* sanitizeFilename of the result
SanitizeTwice ==
    /\ san.pc = "once"
    /\ san' = [san EXCEPT !.pc = "done", !.twice = sanitizeFilename(san.once)]
    /\ UNCHANGED <<exceptSan, cycleVars>>

NextSanitize == SanitizeCall \/ SanitizeOnce \/ SanitizeTwice

SpecSanitize == InitSanitize /\ [][NextSanitize]_vars

(***************************************************************************)
(* Concurrent tasks that send requests through the two clients             *)
(***************************************************************************)
MaxWaits == 3
MaxRequests == 4

\* time passes by a second or by a minute
Waits == {1, SecondsPerMinute}

\* general_rate_limit and torrents_rate_limit as config.Load lets them through
GeneralRates == {30}
TorrentsRates == {1}

InitLimiter == InitUnrestrict

\* realdebrid.New builds the two clients, each with its own full bucket
NewClients ==
    /\ lim.pc = "idle"
    /\ \E g \in GeneralRates, r \in TorrentsRates :
          \E ls \in {ClientLimiters(g, r)} :
             lim' = [LimIdle EXCEPT !.pc = "running",
                                    !.limiter = ls,
                                    !.tokens = [c \in EndpointClasses |-> FullBucket(ls[c])]]
    /\ UNCHANGED <<exceptLim, cycleVars>>

\* a task calls Do on the client of an endpoint class
DoCall(t) ==
    /\ lim.pc = "running"
    /\ lim.task[t].pc = "idle"
    /\ \E c \in EndpointClasses :
          lim' = [lim EXCEPT !.task[t] = [pc |-> "wait", class |-> c, attempt |-> 0]]
    /\ UNCHANGED <<exceptLim, cycleVars>>

\* doRequest: rateLimiter.Wait returns once the bucket of the client holds a
\* token, which it takes, and the request is dispatched
DoRequest(t) ==
    /\ lim.pc = "running"
    /\ lim.task[t].pc = "wait"
    /\ Len(lim.sent) < MaxRequests
    /\ lim.tokens[lim.task[t].class] >= SecondsPerMinute
    /\ lim' = [lim EXCEPT !.tokens[lim.task[t].class] = @ - SecondsPerMinute,
                          !.sent = Append(@, [class |-> lim.task[t].class, at |-> lim.clock]),
                          !.task[t].pc = "sent"]
    /\ UNCHANGED <<exceptLim, cycleVars>>

\* the answer, or the I/O error, is one Do retries and attempts are left:
\* after the backoff the loop sends the request again
DoRetry(t) ==
    /\ lim.pc = "running"
    /\ lim.task[t].pc = "sent"
    /\ lim.task[t].attempt < maxRetries
    /\ lim' = [lim EXCEPT !.task[t].pc = "wait", !.task[t].attempt = @ + 1]
    /\ UNCHANGED <<exceptLim, cycleVars>>

\* Do returns the response or the error
DoReturn(t) ==
    /\ lim.pc = "running"
    /\ lim.task[t].pc = "sent"
    /\ lim' = [lim EXCEPT !.task[t].pc = "idle"]
    /\ UNCHANGED <<exceptLim, cycleVars>>

\* time passes: each bucket gains its share, up to its burst
LimiterWait ==
    /\ lim.pc = "running"
    /\ \E d \in Waits :
          /\ lim.waits < MaxWaits
          /\ lim' = [lim EXCEPT !.clock = @ + d,
                                !.waits = @ + 1,
                                !.tokens = [c \in EndpointClasses |->
                                              Min2(FullBucket(lim.limiter[c]),
                                                   lim.tokens[c] + d * lim.limiter[c].perMinute)]]
    /\ UNCHANGED <<exceptLim, cycleVars>>

NextLimiter ==
    \/ NewClients
    \/ \E t \in LimTasks : DoCall(t) \/ DoRequest(t) \/ DoRetry(t) \/ DoReturn(t)
    \/ LimiterWait

SpecLimiter == InitLimiter /\ [][NextLimiter]_vars

(***************************************************************************)
(* Service.Watch: cycle after cycle                                        *)
(***************************************************************************)
MaxStarted == 3
ConfiguredIntervals == {5, 10, 11}

InitWatch == InitUnrestrict

\* Watch is called: the interval is read from the loaded configuration
WatchCall ==
    /\ watch.pc = "idle"
    /\ \E c \in ConfiguredIntervals :
          watch' = [WatchIdle EXCEPT !.pc = "loop", !.interval = WatchModeInterval(c)]
    /\ UNCHANGED <<exceptWatch, cycleVars>>

\* the top of the loop: Run(false) is called
WatchRun ==
    /\ watch.pc = "loop"
    /\ watch' = [watch EXCEPT !.pc = "run", !.step = 1,
                              !.started = Min2(@ + 1, MaxStarted)]
    /\ UNCHANGED <<exceptWatch, cycleVars>>

\* one of the three steps of Run succeeds
RunStepSucceeds ==
    /\ watch.pc = "run"
    /\ watch.step < Len(RunSteps)
    /\ watch' = [watch EXCEPT !.step = @ + 1]
    /\ UNCHANGED <<exceptWatch, cycleVars>>

\* one of the three steps of Run fails: Run returns the error
RunReturnsError ==
    /\ watch.pc = "run"
    /\ watch' = [watch EXCEPT !.pc = WatchAfterRun(RunSteps[watch.step]),
                              !.err = RunSteps[watch.step], !.slept = 0]
    /\ UNCHANGED <<exceptWatch, cycleVars>>

\* the last step of Run succeeds: Run returns the result
RunReturnsResult ==
    /\ watch.pc = "run"
    /\ watch.step = Len(RunSteps)
    /\ watch' = [watch EXCEPT !.pc = WatchAfterRun(NoRunError), !.err = NoRunError,
                              !.slept = 0]
    /\ UNCHANGED <<exceptWatch, cycleVars>>

\* a second of time.Sleep(interval) passes
WatchSleeps ==
    /\ watch.pc = "sleep"
    /\ watch.slept < watch.interval
    /\ watch' = [watch EXCEPT !.slept = @ + 1]
    /\ UNCHANGED <<exceptWatch, cycleVars>>

\* time.Sleep returns: the loop starts again
WatchWakes ==
    /\ watch.pc = "sleep"
    /\ watch.slept = watch.interval
    /\ watch' = [watch EXCEPT !.pc = "loop"]
    /\ UNCHANGED <<exceptWatch, cycleVars>>

NextWatch ==
    \/ WatchCall
    \/ WatchRun
    \/ RunStepSucceeds
    \/ RunReturnsError
    \/ RunReturnsResult
    \/ WatchSleeps
    \/ WatchWakes

SpecWatch == InitWatch /\ [][NextWatch]_vars

\* Watch is one goroutine: each request of Run ends, by an answer or by the
\* client's timeout, and time.Sleep returns
SpecWatchFair == SpecWatch /\ WF_vars(NextWatch)

(***************************************************************************)
(* worker.Pool: jobs, permits and Wait                                     *)
(***************************************************************************)
RequestedWorkers == {0, 1, 2}

InitPool == InitUnrestrict

\* the pool is created
NewPoolCall ==
    /\ pool.pc = "idle"
    /\ \E n \in RequestedWorkers :
          pool' = [PoolIdle EXCEPT !.pc = "open", !.requested = n,
                                   !.maxWorkers = NewPool(n).maxWorkers,
                                   !.semCap = NewPool(n).semCap]
    /\ UNCHANGED <<exceptPool, cycleVars>>

\* the owner of the pool submits a job
SubmitCall ==
    /\ pool.pc = "open"
    /\ Cardinality(Submitted(pool)) < MaxJobs
    /\ pool' = Submit(pool)
    /\ UNCHANGED <<exceptPool, cycleVars>>

\* the goroutine of job j sends on sem and calls the job function
JobAcquires(j) ==
    /\ pool.job[j] = "acquire"
    /\ semSend(pool.held, pool.semCap)
    /\ pool' = [pool EXCEPT !.held = @ + 1, !.job[j] = "job"]
    /\ UNCHANGED <<exceptPool, cycleVars>>

\* the job function of j submits a job itself
JobSubmits(j) ==
    /\ pool.job[j] = "job"
    /\ Cardinality(Submitted(pool)) < MaxJobs
    /\ pool' = Submit(pool)
    /\ UNCHANGED <<exceptPool, cycleVars>>

\* the job function of j returns
JobReturns(j) ==
    /\ pool.job[j] = "job"
    /\ pool' = [pool EXCEPT !.job[j] = "release"]
    /\ UNCHANGED <<exceptPool, cycleVars>>

\* the deferred receive from sem runs first
JobReleases(j) ==
    /\ pool.job[j] = "release"
    /\ pool' = [pool EXCEPT !.held = @ - 1, !.job[j] = "done"]
    /\ UNCHANGED <<exceptPool, cycleVars>>

\* the deferred wg.Done() runs last
JobDone(j) ==
    /\ pool.job[j] = "done"
    /\ pool' = [pool EXCEPT !.wg = @ - 1, !.job[j] = "exited"]
    /\ UNCHANGED <<exceptPool, cycleVars>>

\* the owner calls Wait
WaitCall ==
    /\ pool.pc = "open"
    /\ pool' = [pool EXCEPT !.pc = "waiting", !.before = Submitted(pool)]
    /\ UNCHANGED <<exceptPool, cycleVars>>

\* Wait returns
WaitReturns ==
    /\ pool.pc = "waiting"
    /\ wgWait(pool.wg)
    /\ pool' = [pool EXCEPT !.pc = "open"]
    /\ UNCHANGED <<exceptPool, cycleVars>>

NextPool ==
    \/ NewPoolCall
    \/ SubmitCall
    \/ \E j \in Jobs : JobAcquires(j) \/ JobSubmits(j) \/ JobReturns(j)
    \/ \E j \in Jobs : JobReleases(j) \/ JobDone(j)
    \/ WaitCall
    \/ WaitReturns

SpecPool == InitPool /\ [][NextPool]_vars

\* the scheduler runs every goroutine that can take a step, and every job
\* function returns
SpecPoolFair ==
    /\ SpecPool
    /\ \A j \in Jobs :
          /\ WF_vars(JobAcquires(j))
          /\ WF_vars(JobReturns(j))
          /\ WF_vars(JobReleases(j))
          /\ WF_vars(JobDone(j))
    /\ WF_vars(WaitReturns)

(***************************************************************************)
(* request.Client.Do: attempts and backoff                                 *)
(***************************************************************************)
InitDo == InitUnrestrict

\* Do is called on one of the provider's two clients
DoCalled ==
    /\ do.pc \in {"idle", "returned"}
    /\ \E c \in EndpointClasses :
          do' = [DoIdle EXCEPT !.pc = "attempt", !.class = c, !.client = realdebridNew[c],
                               !.backoff = InitialBackoff]
    /\ UNCHANGED <<exceptDo, cycleVars>>

\* one turn of the loop in which doRequest gives an error
DoAttemptError ==
    /\ do.pc = "attempt"
    /\ do.attempt <= do.client.maxRetries
    /\ \E e \in DoErrors :
          IF requestIsRetryableError(e) /\ do.attempt < do.client.maxRetries
          THEN \E jitter \in Int63n(do.backoff \div 4) :
                  do' = [do EXCEPT !.pc = "sleep", !.dispatched = @ + 1, !.err = e,
                                   !.status = NoResponse, !.slept = do.backoff + jitter,
                                   !.retries = @ + 1]
          ELSE do' = [do EXCEPT !.pc = "returned", !.dispatched = @ + 1, !.err = e,
                                !.status = NoResponse, !.returned = "err"]
    /\ UNCHANGED <<exceptDo, cycleVars>>

\* one turn of the loop in which doRequest gives a response
DoAttemptResponse ==
    /\ do.pc = "attempt"
    /\ do.attempt <= do.client.maxRetries
    /\ \E s \in DoStatuses :
          IF s \notin do.client.retryableStatus \/ DoLastAttempt(do.client, do.attempt)
          THEN do' = [do EXCEPT !.pc = "returned", !.dispatched = @ + 1, !.status = s,
                                !.err = "", !.returned = "resp"]
          ELSE \E jitter \in Int63n(do.backoff \div 4) :
                  do' = [do EXCEPT !.pc = "sleep", !.dispatched = @ + 1, !.status = s,
                                   !.err = "", !.slept = do.backoff + jitter,
                                   !.retries = @ + 1]
    /\ UNCHANGED <<exceptDo, cycleVars>>

\* time.After(sleepTime) fires: the backoff doubles and the loop goes on;
\* past the last turn Do returns its own error
DoSleepOver ==
    /\ do.pc = "sleep"
    /\ do' = IF do.attempt + 1 <= do.client.maxRetries
             THEN [do EXCEPT !.pc = "attempt", !.attempt = @ + 1, !.backoff = @ * 2]
             ELSE [do EXCEPT !.pc = "returned", !.attempt = @ + 1, !.backoff = @ * 2,
                             !.returned = "max retries exceeded"]
    /\ UNCHANGED <<exceptDo, cycleVars>>

\* the request's context is done while Do sleeps
DoContextDone ==
    /\ do.pc = "sleep"
    /\ do' = [do EXCEPT !.pc = "returned", !.returned = "ctx"]
    /\ UNCHANGED <<exceptDo, cycleVars>>

NextDo ==
    \/ DoCalled
    \/ DoAttemptError
    \/ DoAttemptResponse
    \/ DoSleepOver
    \/ DoContextDone

SpecDo == InitDo /\ [][NextDo]_vars

(***************************************************************************)
(* retry.Queue: any sequence of its operations                             *)
(***************************************************************************)
InitQueue == InitUnrestrict

\* the torrent a link is queued for: the first holds h1, the second h2
TorrentIdOf(l) == IF l \in Range(HashLinks("h1")) THEN 1 ELSE MaxTorrentId

\* the count of a link's item, if it has one, is counted up to MaxRetryCount
CountBelowMax(q, l) ==
    IF QueueIndex(q, l) = 0 THEN TRUE ELSE q[QueueIndex(q, l)].RetryCount < MaxRetryCount

\* retry.New with no queue file: the queue starts empty
QueueNew ==
    /\ rq.pc = "idle"
    /\ rq' = [RqIdle EXCEPT !.pc = "open", !.op = "New"]
    /\ UNCHANGED <<exceptRq, cycleVars>>

QueueAddCall ==
    /\ rq.pc = "open"
    /\ \E l \in Links, m \in QueueMessages :
          /\ CountBelowMax(rq.items, l)
          /\ rq' = [rq EXCEPT !.items = QueueAdd(@, l, TorrentIdOf(l), ErrorTypeOf(m), m),
                              !.op = "Add", !.link = l, !.emsg = m]
    /\ UNCHANGED <<exceptRq, cycleVars>>

QueueIncrementCall ==
    /\ rq.pc = "open"
    /\ \E l \in Links :
          /\ CountBelowMax(rq.items, l)
          /\ rq' = [rq EXCEPT !.items = IncrementRetry(@, l), !.op = "IncrementRetry",
                              !.link = l, !.emsg = ""]
    /\ UNCHANGED <<exceptRq, cycleVars>>

QueueRemoveCall ==
    /\ rq.pc = "open"
    /\ \E l \in Links :
          rq' = [rq EXCEPT !.items = QueueRemove(@, l), !.op = "Remove", !.link = l,
                           !.emsg = ""]
    /\ UNCHANGED <<exceptRq, cycleVars>>

QueueClearCall ==
    /\ rq.pc = "open"
    /\ rq' = [rq EXCEPT !.items = QueueClear, !.op = "Clear", !.link = "", !.emsg = ""]
    /\ UNCHANGED <<exceptRq, cycleVars>>

NextQueue ==
    \/ QueueNew
    \/ QueueAddCall
    \/ QueueIncrementCall
    \/ QueueRemoveCall
    \/ QueueClearCall

SpecQueue == InitQueue /\ [][NextQueue]_vars

(***************************************************************************)
(* processRetryQueue on any queue                                          *)
(***************************************************************************)
MaxQueue == 3
DrainCounts == {0, MaxRetryAttempts - 1, MaxRetryAttempts}

\* the queues a drain may find: no link twice, as Add leaves them
DrainQueues ==
    {[i \in DOMAIN s |-> RetryItem(s[i], TorrentIdOf(s[i]), cs[s[i]], "503", "HTTP 503")] :
        s \in {t \in UNION {[1..n -> Links] : n \in 0..MaxQueue} : NoRepeats(t)},
        cs \in [Links -> DrainCounts]}

InitDrain == InitUnrestrict

\* processRetryQueue is called with the downloaded torrents: GetAll copies
\* the slice, and an empty queue ends the call at once
DrainCall ==
    /\ dr.pc = "idle"
    /\ \E q \in DrainQueues, ts \in SUBSET TorrentIds :
          dr' = [DrIdle EXCEPT !.pc = IF Len(q) = 0 THEN "returned" ELSE "loop",
                               !.items = q, !.saved = q, !.before = q,
                               !.snapshot = [i \in DOMAIN q |-> q[i].Link], !.torrents = ts]
    /\ UNCHANGED <<exceptDr, cycleVars>>

\* the checks that need no call of the provider
DrainExamine ==
    /\ dr.pc = "loop"
    /\ dr.idx <= Len(dr.snapshot)
    /\ LET item == dr.before[dr.idx]
       IN  /\ MaxedOut(item) \/ item.TorrentID \notin dr.torrents
           /\ dr' = [dr EXCEPT !.items = processItem(@, item, dr.torrents, NoError),
                               !.stats = processStats(@, item, dr.torrents, NoError),
                               !.idx = @ + 1, !.errs = Append(@, NotCalled)]
    /\ UNCHANGED <<exceptDr, cycleVars>>

\* UnrestrictLink is called for the item and returns
DrainUnrestrict ==
    /\ dr.pc = "loop"
    /\ dr.idx <= Len(dr.snapshot)
    /\ LET item == dr.before[dr.idx]
       IN  /\ ~MaxedOut(item)
           /\ item.TorrentID \in dr.torrents
           /\ \E e \in {NoError} \cup UnrestrictErrors(item.Link) :
                 dr' = [dr EXCEPT !.items = processItem(@, item, dr.torrents, e),
                                  !.stats = processStats(@, item, dr.torrents, e),
                                  !.idx = @ + 1, !.errs = Append(@, e)]
    /\ UNCHANGED <<exceptDr, cycleVars>>

\* the loop is over: the queue is saved
DrainSave ==
    /\ dr.pc = "loop"
    /\ dr.idx > Len(dr.snapshot)
    /\ dr' = [dr EXCEPT !.pc = "returned", !.saved = dr.items]
    /\ UNCHANGED <<exceptDr, cycleVars>>

NextDrain ==
    \/ DrainCall
    \/ DrainExamine
    \/ DrainUnrestrict
    \/ DrainSave

SpecDrain == InitDrain /\ [][NextDrain]_vars

(***************************************************************************)
(* realdebrid.Client.GetTorrents: page after page                          *)
(***************************************************************************)
InitTorrents == InitUnrestrict

GetTorrentsCall ==
    /\ gt.pc \in {"idle", "returned"}
    /\ gt' = [GtIdle EXCEPT !.pc = "fetch", !.page = 1]
    /\ UNCHANGED <<exceptGt, cycleVars>>

\* the loop has ended: the torrents are filtered by status and returned
GetTorrentsFiltered(g) ==
    [g EXCEPT !.pc = "returned",
              !.downloaded = FilterByStatus(g.allTorrents, "downloaded"),
              !.dead = FilterByStatus(g.allTorrents, "dead")]

\* the request of the page that is due
Asked(g) == [g EXCEPT !.asked = Append(@, [page |-> g.page, limit |-> TorrentsLimit])]

\* a page comes with status 200
GetTorrentsPage ==
    /\ gt.pc = "fetch"
    /\ \E statuses \in TorrentPages :
          LET torrents == [i \in DOMAIN statuses |->
                              [ID |-> Len(gt.allTorrents) + i, Status |-> statuses[i]]]
              got == [Asked(gt) EXCEPT !.sizes = Append(@, Len(torrents)),
                                       !.allTorrents = @ \o torrents]
          IN  gt' = IF Len(torrents) = 0 \/ Len(torrents) < TorrentsLimit
                    THEN GetTorrentsFiltered(got)
                    ELSE IF PastSafetyLimit(gt.page + 1)
                    THEN GetTorrentsFiltered([got EXCEPT !.page = @ + 1])
                    ELSE [got EXCEPT !.page = @ + 1]
    /\ UNCHANGED <<exceptGt, cycleVars>>

\* a page comes with status 204
GetTorrentsNoContent ==
    /\ gt.pc = "fetch"
    /\ gt' = GetTorrentsFiltered([Asked(gt) EXCEPT !.sizes = Append(@, NoContent)])
    /\ UNCHANGED <<exceptGt, cycleVars>>

\* Do fails, the status is neither 200 nor 204, or the body cannot be read
\* or parsed: nil, nil and the error
GetTorrentsPageFails ==
    /\ gt.pc = "fetch"
    /\ \E e \in {"fetching torrents page", "API error on page", "reading response",
                 "parsing torrents"} :
          gt' = [Asked(gt) EXCEPT !.pc = "returned", !.err = e]
    /\ UNCHANGED <<exceptGt, cycleVars>>

NextTorrents ==
    \/ GetTorrentsCall
    \/ GetTorrentsPage
    \/ GetTorrentsNoContent
    \/ GetTorrentsPageFails

\* every request of the torrents client ends: Do makes a bounded number of
\* attempts, each under the client's timeout
SpecTorrents ==
    /\ InitTorrents
    /\ [][NextTorrents]_vars
    /\ WF_vars(GetTorrentsPage \/ GetTorrentsNoContent \/ GetTorrentsPageFails)

(***************************************************************************)
(* repair.Service.RepairTorrents: one request after the other              *)
(***************************************************************************)
InitRepair == InitUnrestrict

\* RepairTorrents is called with some dead torrents of the account
RepairTorrentsCall ==
    /\ rp.pc \in {"idle", "returned"}
    /\ \E n \in 0..MaxBatch, dry \in BOOLEAN :
          rp' = [RpIdle EXCEPT !.pc = IF n = 0 THEN "returned" ELSE "torrent",
                               !.dryRun = dry, !.torrents = [i \in 1..n |-> i],
                               !.account = 1..n, !.nextId = n + 1]
    /\ UNCHANGED <<exceptRp, cycleVars>>

\* RepairTorrent has returned for the torrent the loop is at
RepairCounted(r, repair, ok) ==
    [r EXCEPT !.pc = IF r.idx = Len(r.torrents) THEN "returned" ELSE "torrent",
              !.idx = @ + 1,
              !.cur = NoRepair,
              !.repairs = Append(@, [repair EXCEPT !.counted = IF ok THEN "succeeded"
                                                                ELSE "failed"]),
              !.succeeded = IF ok THEN @ + 1 ELSE @,
              !.failed = IF ok THEN @ ELSE @ + 1]

\* a dry run returns nil before any request
RepairDryRun ==
    /\ rp.pc = "torrent"
    /\ rp.dryRun
    /\ rp' = RepairCounted(rp, [NoRepair EXCEPT !.old = rp.torrents[rp.idx]], TRUE)
    /\ UNCHANGED <<exceptRp, cycleVars>>

\* Step 1: AddMagnet gives a new id
AddMagnetOk ==
    /\ rp.pc = "torrent"
    /\ ~rp.dryRun
    /\ rp' = [rp EXCEPT !.pc = "select", !.account = @ \cup {rp.nextId}, !.nextId = @ + 1,
                        !.cur = [NoRepair EXCEPT !.old = rp.torrents[rp.idx],
                                                 !.new = rp.nextId]]
    /\ UNCHANGED <<exceptRp, cycleVars>>

\* Step 1 fails: RepairTorrent returns the error
AddMagnetFails ==
    /\ rp.pc = "torrent"
    /\ ~rp.dryRun
    /\ rp' = RepairCounted(rp, [NoRepair EXCEPT !.old = rp.torrents[rp.idx]], FALSE)
    /\ UNCHANGED <<exceptRp, cycleVars>>

\* Step 2: SelectVideoFiles succeeds
SelectVideoFilesOk ==
    /\ rp.pc = "select"
    /\ rp' = [rp EXCEPT !.pc = "delete", !.cur.selected = TRUE]
    /\ UNCHANGED <<exceptRp, cycleVars>>

\* Step 2 fails: DeleteTorrent is called for the new torrent, what it returns
\* is dropped, and RepairTorrent returns the error of Step 2
SelectVideoFilesFails ==
    /\ rp.pc = "select"
    /\ \E deleted \in BOOLEAN :
          rp' = RepairCounted([rp EXCEPT !.account = IF deleted THEN @ \ {rp.cur.new} ELSE @],
                              [rp.cur EXCEPT !.newDeleted = deleted], FALSE)
    /\ UNCHANGED <<exceptRp, cycleVars>>

\* Step 3: DeleteTorrent is called for the original; a failure is logged and
\* RepairTorrent returns nil
DeleteOriginal ==
    /\ rp.pc = "delete"
    /\ \E deleted \in BOOLEAN :
          rp' = RepairCounted([rp EXCEPT !.account = IF deleted THEN @ \ {rp.cur.old} ELSE @],
                              [rp.cur EXCEPT !.oldDeleted = deleted], TRUE)
    /\ UNCHANGED <<exceptRp, cycleVars>>

NextRepair ==
    \/ RepairTorrentsCall
    \/ RepairDryRun
    \/ AddMagnetOk
    \/ AddMagnetFails
    \/ SelectVideoFilesOk
    \/ SelectVideoFilesFails
    \/ DeleteOriginal

SpecRepair == InitRepair /\ [][NextRepair]_vars

(***************************************************************************)
(* Save: os.WriteFile on the store's own file                              *)
(***************************************************************************)
InitSave == InitUnrestrict

\* Save is called: the data are marshalled
SaveCall ==
    /\ sv.pc = "idle"
    /\ \E s \in Stores, old \in Docs, new \in Docs :
          sv' = [pc |-> "open", store |-> s, file |-> old, previous |-> old, data |-> new]
    /\ UNCHANGED <<exceptSv, cycleVars>>

\* os.WriteFile opens the file itself with O_TRUNC
WriteFileOpen ==
    /\ sv.pc = "open"
    /\ sv' = [sv EXCEPT !.pc = "write", !.file = <<>>]
    /\ UNCHANGED <<exceptSv, cycleVars>>

\* the next piece of the data reaches the file
WriteFileWrite ==
    /\ sv.pc = "write"
    /\ Len(sv.file) < Len(sv.data)
    /\ sv' = [sv EXCEPT !.file = Append(@, sv.data[Len(sv.file) + 1])]
    /\ UNCHANGED <<exceptSv, cycleVars>>

\* all is written: the file is closed and Save returns nil
WriteFileClose ==
    /\ sv.pc = "write"
    /\ Len(sv.file) = Len(sv.data)
    /\ sv' = [sv EXCEPT !.pc = "saved"]
    /\ UNCHANGED <<exceptSv, cycleVars>>

\* the process is killed while Save runs
SaveKilled ==
    /\ sv.pc \in {"open", "write"}
    /\ sv' = [sv EXCEPT !.pc = "killed"]
    /\ UNCHANGED <<exceptSv, cycleVars>>

\* the program is started again, or goes on to its next Save
SaveAgain ==
    /\ sv.pc \in {"saved", "killed"}
    /\ sv' = SvIdle
    /\ UNCHANGED <<exceptSv, cycleVars>>

NextSave ==
    \/ SaveCall
    \/ WriteFileOpen
    \/ WriteFileWrite
    \/ WriteFileClose
    \/ SaveKilled
    \/ SaveAgain

SpecSave == InitSave /\ [][NextSave]_vars

(***************************************************************************)
(* The organizer: Run after the strm service has changed the library       *)
(***************************************************************************)
InitOrganizer == InitUnrestrict

\* what the disk holds once the organizer has returned and others work again
OrgLeft(fs) == [fs |-> fs, before |-> OrgIdle.before, result |-> Result, ran |-> FALSE]

\* the strm service writes a .strm file and its tracking record: UpdateSTRM
\* and Track, with a link of the file and the URL unrestrict gave
StrmWritten ==
    /\ \E p \in RelPaths, u \in DownloadURLs :
        \E l \in LinksOf(p) :
          /\ org' = OrgLeft([org.fs EXCEPT
                     ![libraryDir(p)] = StrmFile(u),
                     ![trackingPath] = MapFile((p :> TrackingEntry(l, u)) @@ loadTracking(org.fs))])
    /\ UNCHANGED <<exceptOrg, cycleVars>>

\* a .strm file leaves the library; its tracking record goes with it or stays
StrmRemoved ==
    /\ \E p \in RelPaths, untracked \in BOOLEAN :
          /\ fileExists(org.fs, libraryDir(p))
          /\ LET entries == loadTracking(org.fs)
                 left    == [q \in DOMAIN entries \ {p} |-> entries[q]]
             IN  org' = OrgLeft([org.fs EXCEPT
                            ![libraryDir(p)] = NoFile,
                            ![trackingPath] = IF untracked /\ p \in DOMAIN entries
                                              THEN MapFile(left) ELSE @])
    /\ UNCHANGED <<exceptOrg, cycleVars>>

\* an organized file is deleted by whoever uses the organized directory
OrganizedRemoved ==
    /\ \E d \in DestPaths :
          /\ fileExists(org.fs, organizedDir(d))
          /\ org' = OrgLeft([org.fs EXCEPT ![organizedDir(d)] = NoFile])
    /\ UNCHANGED <<exceptOrg, cycleVars>>

\* runOrganizer: one Run, the tracking map ranged over in any order
OrganizerRun ==
    /\ \E order \in Perms(DOMAIN loadTracking(org.fs)) :
          LET r == Run(org.fs, order)
          IN  org' = [fs |-> r.fs, before |-> org.fs, result |-> r.result, ran |-> TRUE]
    /\ UNCHANGED <<exceptOrg, cycleVars>>

NextOrganizer ==
    \/ StrmWritten
    \/ StrmRemoved
    \/ OrganizedRemoved
    \/ OrganizerRun

SpecOrganizer == InitOrganizer /\ [][NextOrganizer]_vars

(***************************************************************************)
(* The organizer under a configuration: where Run writes                   *)
(***************************************************************************)
WorkingDirs == {AbsPath(<<"app">>), AbsPath(<<"data">>)}
\* the directory of the configuration file, as filepath.Dir gives it
BaseDirs == {AbsPath(<<"app">>), AbsPath(<<"data">>), RelPath(<<".">>), RelPath(<<"conf">>)}
OrganizedDirs == {EmptyPath, RelPath(<<".", "library-organized">>), RelPath(<<"library-organized">>),
                  RelPath(<<"media", "organized">>), AbsPath(<<"srv", "organized">>)}
OrganizedFiles == {<<"Movies", "Some Movie (2024)", "Some Movie (2024) [ABC123].strm">>,
                   <<"Series", "Show", "Season 01", "Show S01E01 [DEF456].strm">>}

InitOrganizedDir == InitUnrestrict

\* runOrganizer makes the Organizer of the configuration
OrganizerNew ==
    /\ od.pc = "idle"
    /\ \E cwd \in WorkingDirs, base \in BaseDirs, dir \in OrganizedDirs :
          LET cfg == [BaseDir |-> base, OrganizedDir |-> dir]
          IN  od' = [pc |-> "run", cwd |-> cwd, cfg |-> cfg,
                     organizedDir |-> organizedDirOf(cfg), written |-> {}]
    /\ UNCHANGED <<exceptOd, cycleVars>>

\* Run copies a source file to its destination under organizedDir
OrganizerCopies ==
    /\ od.pc = "run"
    /\ \E dest \in OrganizedFiles :
          od' = [od EXCEPT !.written = @ \cup {Resolve(od.cwd, Join(od.organizedDir, RelPath(dest)))}]
    /\ UNCHANGED <<exceptOd, cycleVars>>

\* Run returns; the next cycle makes a new Organizer
OrganizerReturns ==
    /\ od.pc = "run"
    /\ od' = [od EXCEPT !.pc = "idle"]
    /\ UNCHANGED <<exceptOd, cycleVars>>

NextOrganizedDir ==
    \/ OrganizerNew
    \/ OrganizerCopies
    \/ OrganizerReturns

SpecOrganizedDir == InitOrganizedDir /\ [][NextOrganizedDir]_vars

(***************************************************************************)
(* The fan-out of unrestrictLinks, task by task                            *)
(***************************************************************************)
\* the missing links: pairs of a torrent and one of its links; two torrents
\* of the same content list the same link
MissingPairs == {[torrent |-> 1, link |-> "l1"], [torrent |-> 1, link |-> "l2"],
                 [torrent |-> 2, link |-> "l1"]}
TaskErrors == {NoError, ServerUnavailableRetryable, RateLimitExceeded, HosterUnavailableError}

InitFanout == InitUnrestrict

\* unrestrictLinks(links, false): every link is submitted to the pool
FanoutCall ==
    /\ fo.pc = "idle"
    /\ \E n \in 1..MaxMissing : \E links \in [1..n -> MissingPairs] :
          /\ \A i, j \in 1..n : i < j => links[i] # links[j]
          /\ fo' = [FoIdle EXCEPT !.pc = "tasks", !.links = links,
                                  !.task = [i \in 1..n |-> "submitted"],
                                  !.err = [i \in 1..n |-> NoError],
                                  !.seen = [i \in 1..n |-> FoIdle.shared]]
    /\ UNCHANGED <<exceptFo, cycleVars>>

\* a task's UnrestrictLink returns
TaskUnrestricts(i) ==
    /\ i \in DOMAIN fo.task
    /\ fo.task[i] = "submitted"
    /\ \E err \in TaskErrors :
          fo' = [fo EXCEPT !.task[i] = "returned", !.err[i] = err]
    /\ UNCHANGED <<exceptFo, cycleVars>>

\* mu.Lock()
TaskLocks(i) ==
    /\ i \in DOMAIN fo.task
    /\ fo.task[i] = "returned"
    /\ muLock(fo.mu)
    /\ fo' = [fo EXCEPT !.task[i] = "locked", !.mu = i]
    /\ UNCHANGED <<exceptFo, cycleVars>>

\* the task reads results, failed and queued
TaskReads(i) ==
    /\ i \in DOMAIN fo.task
    /\ fo.task[i] = "locked"
    /\ fo' = [fo EXCEPT !.task[i] = "read", !.seen[i] = fo.shared]
    /\ UNCHANGED <<exceptFo, cycleVars>>

\* and writes them back with its own outcome added
TaskWrites(i) ==
    /\ i \in DOMAIN fo.task
    /\ fo.task[i] = "read"
    /\ fo' = [fo EXCEPT !.task[i] = "written",
                        !.shared = RecordOutcome(fo.seen[i], fo.links[i], fo.err[i])]
    /\ UNCHANGED <<exceptFo, cycleVars>>

\* the deferred mu.Unlock(); the task is done
TaskUnlocks(i) ==
    /\ i \in DOMAIN fo.task
    /\ fo.task[i] = "written"
    /\ fo' = [fo EXCEPT !.task[i] = "done", !.mu = IF @ = i THEN NoTask ELSE @]
    /\ UNCHANGED <<exceptFo, cycleVars>>

\* pool.Wait returns when every task is done; unrestrictLinks returns
FanoutWaitReturns ==
    /\ fo.pc = "tasks"
    /\ \A i \in DOMAIN fo.task : fo.task[i] = "done"
    /\ fo' = [fo EXCEPT !.pc = "waited"]
    /\ UNCHANGED <<exceptFo, cycleVars>>

\* the next cycle
FanoutAgain ==
    /\ fo.pc = "waited"
    /\ fo' = FoIdle
    /\ UNCHANGED <<exceptFo, cycleVars>>

NextFanout ==
    \/ FanoutCall
    \/ \E i \in 1..MaxMissing : TaskUnrestricts(i)
    \/ \E i \in 1..MaxMissing : TaskLocks(i)
    \/ \E i \in 1..MaxMissing : TaskReads(i)
    \/ \E i \in 1..MaxMissing : TaskWrites(i)
    \/ \E i \in 1..MaxMissing : TaskUnlocks(i)
    \/ FanoutWaitReturns
    \/ FanoutAgain

SpecFanout == InitFanout /\ [][NextFanout]_vars

(***************************************************************************)
(* Step 6 of Run over any downloaded torrents and any outcome              *)
(***************************************************************************)
\* three torrents, two of them listing the same link
FailedTorrents == {[ID |-> 1, Links |-> <<"l1", "l2">>], [ID |-> 2, Links |-> <<"l1">>],
                   [ID |-> 3, Links |-> <<"l3">>]}
FailedLinks == {"l1", "l2", "l3"}

\* the pairs of Step 5, in its order: every link of every torrent that the
\* downloads do not hold
RECURSIVE PairsOf(_, _, _)
PairsOf(ts, i, miss) ==
    IF i > Len(ts) THEN <<>>
    ELSE SelectSeq([k \in DOMAIN ts[i].Links |-> [torrent |-> ts[i].ID, link |-> ts[i].Links[k]]],
                   LAMBDA ml : ml.link \in miss)
         \o PairsOf(ts, i + 1, miss)

InitFailed == InitUnrestrict

\* Step 6: unrestrictLinks returns; in a dry run it returns nothing
FailedCall ==
    /\ ff.pc = "idle"
    /\ \E ts \in UNION {Perms(S) : S \in SUBSET FailedTorrents}, miss \in SUBSET FailedLinks,
          repair \in BOOLEAN, dry \in BOOLEAN :
          \E pairs \in {PairsOf(ts, 1, miss)} :
          \E errs \in [DOMAIN pairs -> TaskErrors] :
             /\ Len(pairs) > 0
             /\ ff' = [pc |-> "returned", torrents |-> ts,
                       outcome |-> [k \in DOMAIN pairs |->
                                       [torrent |-> pairs[k].torrent, link |-> pairs[k].link,
                                        err |-> errs[k]]],
                       failed |-> IF dry THEN <<>>
                                  ELSE [k \in 1..Cardinality({j \in DOMAIN pairs : errs[j] # NoError}) |->
                                          pairs[CHOOSE j \in DOMAIN pairs :
                                                   /\ errs[j] # NoError
                                                   /\ Cardinality({m \in 1..j : errs[m] # NoError}) = k].link],
                       repair |-> repair, dryRun |-> dry, passed |-> <<>>]
    /\ UNCHANGED <<exceptFf, cycleVars>>

\* the torrents of the failed links are passed to RepairTorrents
FailedRepair ==
    /\ ff.pc = "returned"
    /\ Len(ff.failed) > 0 /\ ff.repair /\ ~ff.dryRun
    /\ findTorrentsForLinks(ff.torrents, ff.failed) # {}
    /\ \E order \in Perms(findTorrentsForLinks(ff.torrents, ff.failed)) :
          ff' = [ff EXCEPT !.pc = "repair", !.passed = [k \in DOMAIN order |-> order[k].ID]]
    /\ UNCHANGED <<exceptFf, cycleVars>>

\* or Run goes on to Step 7 without a repair
FailedSkips ==
    /\ ff.pc = "returned"
    /\ ~(/\ Len(ff.failed) > 0 /\ ff.repair /\ ~ff.dryRun
         /\ findTorrentsForLinks(ff.torrents, ff.failed) # {})
    /\ ff' = [ff EXCEPT !.pc = "sync"]
    /\ UNCHANGED <<exceptFf, cycleVars>>

\* the next cycle
FailedAgain ==
    /\ ff.pc \in {"repair", "sync"}
    /\ ff' = FfIdle
    /\ UNCHANGED <<exceptFf, cycleVars>>

NextFailed ==
    \/ FailedCall
    \/ FailedRepair
    \/ FailedSkips
    \/ FailedAgain

SpecFailed == InitFailed /\ [][NextFailed]_vars

(***************************************************************************)
(* Properties of the strm service                                          *)
(***************************************************************************)
StrmFilesOnDisk == {p \in DOMAIN files : HasSuffix(ToLower(p), StrmExt)}

SyncDone == lastOp = "sync" /\ lastSync.ok /\ ~lastSync.dryRun

\* C1: after a non-dry-run Sync that returned without I/O error, the .strm
\* files on disk are exactly the paths built from the candidate list
C1_DiskEqualsCandidates ==
    SyncDone => StrmFilesOnDisk = ExpectedPaths(lastSync.cands)

C1_Witness ==
    /\ SyncDone
    /\ lastSync.result.Added > 0
    /\ lastSync.result.Deleted > 0
    /\ StrmFilesOnDisk # {}

\* C8: after a non-dry-run Sync that returned without I/O error, the keys of
\* the tracking store are exactly the .strm paths on disk
C8_TrackingEqualsDisk ==
    SyncDone => DOMAIN tracking = StrmFilesOnDisk

\* the time a record was last looked at: last_check, or created_at when unset
LastSeen(r) == IF r.LastChecked # ZeroTime THEN r.LastChecked ELSE r.CreatedAt

\* C9: GetExpired returns exactly the records whose last_check, or created_at
\* when last_check is unset, is older than the threshold
C9_ExpiredByLastCheck ==
    lastOp = "expired" =>
        lastExpired = {p \in DOMAIN tracking : LastSeen(tracking[p]) < now - FileExpiryDays}

(***************************************************************************)
(* Properties of the sync cycle                                            *)
(***************************************************************************)
\* the cycle that has just ended was the second of two full cycles, and the
\* provider's torrents and downloads were the same when the first began, when
\* the second began and now
SecondOfTwoUnchanged ==
    /\ LastCycleComplete
    /\ twoCycle.prev # NoRemote
    /\ twoCycle.prev = twoCycle.cur
    /\ twoCycle.cur = Remote

\* C2: the second of two full cycles against unchanged remote state adds,
\* updates and deletes nothing, and counts every desired file as skipped
C2_SecondCycleSkipsAll ==
    SecondOfTwoUnchanged =>
        /\ runResult.STRMAdded = 0
        /\ runResult.STRMUpdated = 0
        /\ runResult.STRMDeleted = 0
        /\ runResult.STRMSkipped = Cardinality(ExpectedPaths(candidates))

C2_Witness == SecondOfTwoUnchanged /\ runResult.STRMSkipped > 0

\* C3: every item of the retry queue has a count of at most max_retry_attempts
C3_CountWithinCap == \A i \in DOMAIN queue : queue[i].RetryCount <= MaxRetryAttempts

\* the item the drain is about to process
DrainCurrent == queue[QueueIndex(queue, drainItems[drainIdx])]

\* C4: the drain issues no unrestrict call for an item whose count has reached
\* max_retry_attempts; it removes the item and counts it as maxed out, whether
\* the item's torrent still exists or not, and the provider is not touched
C4_MaxedOutNotDispatched ==
    [][(pc = "drain" /\ drainIdx' = drainIdx + 1) =>
          IF DrainCurrent.RetryCount >= MaxRetryAttempts
          THEN /\ DrainCurrent.Link \notin QueueLinks(queue')
               /\ drainStats'.MaxedOut = drainStats.MaxedOut + 1
               /\ callLog' = callLog
               /\ lastCall' = lastCall
               /\ rdDownloads' = rdDownloads
          ELSE /\ drainStats'.MaxedOut = drainStats.MaxedOut
               /\ \A c \in callLog' : c.phase = "drain" => c.count < MaxRetryAttempts]_vars

C4_Witness ==
    /\ pc = "drain"
    /\ drainIdx > Len(drainItems)
    /\ drainStats.MaxedOut > 0
    /\ downloaded = <<>>

\* the fan-out has just recorded the result of one task
FanoutTaskStep == pc = "fanout" /\ taskState' # taskState

FailureMarks == {"torrentsFailed", "refetchFailed", "downloadsFailed", "syncFailed"}

\* C7: once a torrents fetch (the re-fetch after repairs included), the
\* downloads fetch or the reconcile has failed, Run has returned an error and
\* no later phase of the cycle runs
C7_FailureAborts ==
    \A f \in FailureMarks : f \in phases => pc = "idle" /\ runErr # ""

\* the expired record the refresh is about to process
RefreshCurrent == refreshList[refreshIdx]

\* C10: the refresh unrestricts the source link of every expired record; on
\* success the file holds the new URL and the record's last check is now, in
\* memory and in the saved store; on failure files and records stay as they
\* were; in both cases the refresh goes on to the next record and the cycle
\* ends without an error after the last one
C10_RefreshStep ==
    [][(pc = "refresh" /\ refreshIdx' = refreshIdx + 1) =>
          /\ lastCall'.phase = "refresh"
          /\ lastCall'.link = tracking[RefreshCurrent].Link
          /\ lastCall'.path = RefreshCurrent
          /\ IF lastCall'.err = NoError
             THEN /\ files'[RefreshCurrent] = Content(lastCall'.url)
                  /\ tracking'[RefreshCurrent].LastChecked = now
                  /\ tracking'[RefreshCurrent].DownloadURL = lastCall'.url
                  /\ trackingFile' = tracking'
             ELSE UNCHANGED <<files, tracking, trackingFile>>
          /\ IF refreshIdx < Len(refreshList)
             THEN pc' = "refresh"
             ELSE pc' = "idle" /\ "done" \in phases' /\ runErr' = ""
          /\ Range(refreshList) = lastExpired]_vars

C10_Witness ==
    /\ pc = "idle"
    /\ "refresh" \in phases
    /\ lastExpired # {}
    /\ lastCall.phase = "refresh"
    /\ lastCall.err = NoError
    /\ files[lastCall.path] = Content(lastCall.url)
    /\ tracking[lastCall.path].LastChecked = now
    /\ tracking[lastCall.path].CreatedAt < now

(***************************************************************************)
(* Properties of one UnrestrictLink call                                   *)
(***************************************************************************)
\* C6: a call whose first three requests are answered with 503 ends after
\* those three requests with the error that puts the link into the retry queue
C6_ThreeAnswersQueue ==
    (unr.pc = "done" /\ unr.lead503 >= 3) =>
        (unr.requests = 3 /\ unr.result = ServerUnavailableRetryable)

(***************************************************************************)
(* Empty directories after a reconcile                                     *)
(***************************************************************************)
SyncReturns == lastOp' = "sync" /\ lastOp = "none" /\ lastSync'.ok /\ ~lastSync'.dryRun

\* the directories whose last file this step has deleted
EmptiedDirs == {d \in dirs : ~DirIsEmpty(files, d) /\ DirIsEmpty(files', d)}

\* C11: a reconcile that deletes the last file of a directory removes that
\* directory, and it never removes the output root, whichever way output_dir
\* is written in the configuration.
C11_CleanupStopsAtRoot ==
    [][SyncReturns => (rootExists' /\ EmptiedDirs \cap dirs' = {})]_vars

(***************************************************************************)
(* Dry runs                                                                *)
(***************************************************************************)
\* a step of Run, as opposed to a step of the account's owner or of the clock
CycleStep == cycles' # cycles \/ pc # "idle"

\* C12: no step of a dry-run cycle changes the provider's torrents or
\* downloads, the output tree, the tracking store in memory or on disk, or the
\* retry queue in memory or on disk, and a dry-run cycle dispatches no
\* unrestrict call.
C12_DryRunChangesNothing ==
    [][(CycleStep /\ dryRun') =>
          /\ UNCHANGED <<rdTorrents, rdNextId, rdDownloads>>
          /\ UNCHANGED <<files, dirs, rootExists>>
          /\ UNCHANGED <<tracking, trackingFile, queue, retryFile>>
          /\ callLog' = {}]_vars

\* a dry run has ended that had a dead torrent to repair, links to
\* unrestrict, a queue to drain and files to create or delete
C12_Witness ==
    /\ pc = "idle" /\ dryRun /\ "done" \in phases
    /\ runResult.TorrentsRepaired > 0
    /\ Len(missing) > 0
    /\ Len(queue) > 0
    /\ runResult.STRMAdded + runResult.STRMDeleted > 0

\* the dry run the cycle steps perform returns what DryRunReport computes
DryRunReturnsReport ==
    (pc = "idle" /\ dryRun /\ "done" \in phases /\ twoCycle.cur # NoRemote) =>
        ReportOf(runResult) = twoCycle.dry

\* a real run has ended in which no provider call failed
RealRunWithoutFailure ==
    /\ pc = "idle" /\ ~dryRun /\ "done" \in phases
    /\ twoCycle.cur # NoRemote
    /\ lastCall.err = NoError
    /\ runResult.LinksFailed = 0
    /\ drainStats.Failed = 0
    /\ cfgRepair => runResult.TorrentsRepaired = runResult.TorrentsDead
    /\ "refetchFailed" \notin phases

\* C13: the repaired count and the created, updated, removed and unchanged
\* file counts of a real run equal those a dry run reports of the state the
\* real run started in.
C13_DryRunPredictsRun ==
    RealRunWithoutFailure => ReportOf(runResult) = twoCycle.dry

(***************************************************************************)
(* Properties of GetDownloads                                              *)
(***************************************************************************)
\* the downloads GetDownloads returns, and the streamable ones of the list
Returned == {dl.result[l] : l \in DOMAIN dl.result}
StreamableListed == {d \in Range(dl.provider) : IsStreamable(d)}

\* C14: GetDownloads returns exactly one download per source link that has a
\* streamable download in the provider's list; the returned download is a
\* streamable one of the list, and no streamable download of its link was
\* generated later.
C14_OnePerLinkLatest ==
    dl.pc = "done" =>
        /\ {d.Link : d \in Returned} = {d.Link : d \in StreamableListed}
        /\ \A l \in DOMAIN dl.result : Cardinality({d \in Returned : d.Link = l}) = 1
        /\ \A d \in Returned :
              /\ d \in StreamableListed
              /\ \A e \in StreamableListed : e.Link = d.Link => e.Generated <= d.Generated

\* the list holds, for one link, a streamable download, then a streamable
\* one generated earlier, and a download generated last that is not
\* streamable; the list needed a second page
C14_Witness ==
    /\ dl.pc = "done"
    /\ Len(dl.provider) = MaxList
    /\ \E i, j, k \in DOMAIN dl.provider :
          /\ i < j
          /\ dl.provider[i].Link = dl.provider[j].Link
          /\ dl.provider[k].Link = dl.provider[i].Link
          /\ IsStreamable(dl.provider[i]) /\ IsStreamable(dl.provider[j])
          /\ ~IsStreamable(dl.provider[k])
          /\ dl.provider[j].Generated < dl.provider[i].Generated
          /\ dl.provider[i].Generated <= dl.provider[k].Generated
          /\ dl.provider[i] \in Returned

(***************************************************************************)
(* Properties of buildCandidatesInto                                       *)
(***************************************************************************)
BuildMatched == MatchedPairs(bc.torrents, 1, bc.downloadMap)

IsSubtitleOrLargeVideo(pair) ==
    \/ isSubtitle(pair.download.Filename)
    \/ isVideo(pair.download.Filename) /\ pair.download.Filesize >= MinFileSizeBytes

IsSmallVideo(pair) ==
    isVideo(pair.download.Filename) /\ pair.download.Filesize < MinFileSizeBytes

\* C15: the candidates are, pair by pair, the matched (torrent, link) pairs
\* whose file is a subtitle of any size or a video at or above the floor;
\* filtered-small counts the matched videos below the floor, filtered-other
\* the remaining matched pairs, so the three counts add up to the number of
\* matched pairs.
C15_CandidatesAndCounts ==
    bc.pc = "done" =>
        LET kept == SelectSeq(BuildMatched, IsSubtitleOrLargeVideo)
        IN  /\ Len(bc.candidates) = Len(kept)
            /\ \A i \in DOMAIN kept :
                  /\ bc.candidates[i].TorrentID = kept[i].TorrentID
                  /\ bc.candidates[i].Link = kept[i].download.Link
                  /\ bc.candidates[i].Filename = kept[i].download.Filename
            /\ bc.stats.Candidates = Len(kept)
            /\ bc.stats.FilteredSmall = Len(SelectSeq(BuildMatched, IsSmallVideo))
            /\ bc.stats.Candidates + bc.stats.FilteredSmall + bc.stats.FilteredOther
                 = Len(BuildMatched)

\* a call that kept a subtitle below the floor and a video at the floor and
\* dropped a video below the floor, for torrents that share a link
C15_Witness ==
    /\ bc.pc = "done"
    /\ bc.stats.FilteredSmall > 0
    /\ \E i, j \in DOMAIN bc.candidates :
          /\ isSubtitle(bc.candidates[i].Filename)
          /\ bc.candidates[i].Filesize < MinFileSizeBytes
          /\ isVideo(bc.candidates[j].Filename)
          /\ bc.candidates[j].Filesize = MinFileSizeBytes
    /\ Len(BuildMatched) > Cardinality(DOMAIN bc.downloadMap)

(***************************************************************************)
(* Properties of sanitizeFilename                                          *)
(***************************************************************************)
\* C16: sanitizing a sanitized name changes nothing.
C16_SanitizeIdempotent == san.pc = "done" => san.twice = san.once

(***************************************************************************)
(* Properties of the rate limiters                                         *)
(***************************************************************************)
\* the configured rate of a class and the burst that goes with it
ConfiguredRate(c) == lim.limiter[c].perMinute
ConfiguredBurst(c) == Max2(1, ConfiguredRate(c) \div 10)

SentOf(c) == SelectSeq(lim.sent, LAMBDA r : r.class = c)

\* C17: in every window of time the requests dispatched to an endpoint class,
\* first attempts and retries of all tasks together, number at most the
\* configured rate times the length of the window plus one burst of
\* max(1, rate/10).
C17_RateWithinBurst ==
    lim.pc = "running" =>
        \A c \in EndpointClasses :
            \A i, j \in DOMAIN SentOf(c) :
                i <= j =>
                    (j - i + 1) * SecondsPerMinute
                        <= ConfiguredRate(c) * (SentOf(c)[j].at - SentOf(c)[i].at)
                           + ConfiguredBurst(c) * SecondsPerMinute

\* both tasks have just sent a request to the general class, one of them a
\* retry; a whole burst went out in the first second, the next request had to
\* wait for a token, and the bucket is empty again
C17_Witness ==
    /\ lim.pc = "running"
    /\ Len(SentOf("general")) = MaxRequests
    /\ \A t \in LimTasks : lim.task[t].pc = "sent" /\ lim.task[t].class = "general"
    /\ \E t, u \in LimTasks : lim.task[t].attempt > 0 /\ lim.task[u].attempt = 0
    /\ lim.sent[ConfiguredBurst("general")].at = 0
    /\ lim.sent[MaxRequests].at > 0
    /\ lim.tokens["general"] < SecondsPerMinute

\* the torrents class has sent twice its rate in requests, a retry among them,
\* the second one a minute after the first
C17_WitnessSlow ==
    /\ lim.pc = "running"
    /\ Len(SentOf("torrents")) = 2 * ConfiguredRate("torrents")
    /\ SentOf("torrents")[2].at = SentOf("torrents")[1].at + SecondsPerMinute
    /\ \E t \in LimTasks : lim.task[t].class = "torrents" /\ lim.task[t].attempt > 0

(***************************************************************************)
(* Properties of Service.Watch                                             *)
(***************************************************************************)
\* C18: the watch loop does not stop when a cycle has failed.  After a cycle
\* that returned a result and after one that returned an error alike, Watch
\* sleeps for the interval and starts another cycle, so that cycles are
\* started infinitely often.
C18_WatchKeepsCycling ==
    /\ []<><<WatchRun>>_vars
    /\ \A e \in {NoRunError} \cup Range(RunSteps) :
          (watch.pc = "sleep" /\ watch.err = e)
              ~> (watch.pc = "run" /\ watch.slept = watch.interval)
    /\ [](watch.pc \in {"idle", "loop", "run", "sleep"})

C18_Witness ==
    /\ watch.pc = "run"
    /\ watch.started = MaxStarted
    /\ watch.slept = watch.interval
    /\ watch.interval = DefaultWatchInterval
    /\ watch.err = RunSteps[Len(RunSteps)]
    /\ watch.step = Len(RunSteps)

(***************************************************************************)
(* Properties of worker.Pool                                               *)
(***************************************************************************)
Executing == {j \in Jobs : pool.job[j] = "job"}

\* C19: in a pool created with maxWorkers = n, where n < 1 counts as 1, at
\* most n submitted jobs are in their job function at any moment, however
\* many have been submitted.
C19_AtMostNExecuting ==
    pool.pc # "idle" =>
        Cardinality(Executing) <= (IF pool.requested < 1 THEN 1 ELSE pool.requested)

C19_Witness ==
    /\ pool.requested = 2
    /\ Cardinality(Executing) = 2
    /\ Cardinality({j \in Jobs : pool.job[j] = "acquire"}) = 2

C19_WitnessNoWorker ==
    /\ pool.requested = 0
    /\ Cardinality(Executing) = 1
    /\ Cardinality({j \in Jobs : pool.job[j] = "acquire"}) = 3

\* the permits held by the jobs of a set
HeldBy(js) == Cardinality({j \in js : pool.job[j] \in {"job", "release"}})

\* C20: Wait returns only when every job submitted before the call has
\* finished and has released its permit; and when every job function
\* returns and the scheduler is fair, every submitted job comes to run its
\* job function and Wait returns, also with more jobs than permits.
C20_WaitForAll ==
    /\ [][WaitReturns => (\A j \in pool.before : pool.job[j] = "exited")
                         /\ HeldBy(pool.before) = 0]_vars
    /\ \A j \in Jobs : (pool.job[j] = "acquire") ~> (pool.job[j] = "job")
    /\ (pool.pc = "waiting") ~> (pool.pc = "open")

C20_Witness ==
    /\ pool.pc = "open"
    /\ pool.semCap = 1
    /\ pool.before = Jobs
    /\ pool.job[MaxJobs] = "exited"

(***************************************************************************)
(* Properties of request.Client.Do                                         *)
(***************************************************************************)
\* the backoff before the k-th retry
BackoffBefore(k) == InitialBackoff * 2^(k - 1)

\* C21: one call of Do dispatches at most maxRetries + 1 attempts; the wait
\* before the k-th retry is 500 ms * 2^(k-1) plus a jitter below a quarter of
\* that; and when the last allowed attempt gives a retryable status, Do
\* returns that response without an error and dispatches nothing more.
C21_AttemptsAndBackoff ==
    /\ do.dispatched <= do.client.maxRetries + 1
    /\ do.pc = "sleep" =>
          /\ do.slept >= BackoffBefore(do.retries)
          /\ 4 * (do.slept - BackoffBefore(do.retries)) < BackoffBefore(do.retries)
          /\ do.retries = do.dispatched
    /\ do.returned # "max retries exceeded"
    /\ (do.dispatched = do.client.maxRetries + 1 /\ do.status \in do.client.retryableStatus)
          => (do.pc = "returned" /\ do.returned = "resp")

C21_Witness ==
    /\ do.pc = "returned"
    /\ do.returned = "resp"
    /\ do.status = StatusServiceUnavailable
    /\ do.dispatched = maxRetries + 1
    /\ do.retries = maxRetries
    /\ do.slept = BackoffBefore(maxRetries) + BackoffBefore(maxRetries) \div 4 - 1

\* a response has come in a turn of the loop that is not the last
DoGotResponse ==
    /\ do.pc = "attempt"
    /\ do.attempt < do.client.maxRetries
    /\ do'.status # NoResponse

\* C22: the clients of the provider's calls, the general and the torrents
\* one, retry a request when the response has one of the statuses 429, 500,
\* 502, 503 and 504, and on no other status.
C22_RetriesOnFiveStatuses ==
    [][DoGotResponse =>
          (do'.pc = "sleep" <=> do'.status \in
              {StatusTooManyRequests, StatusInternalServerError, StatusBadGateway,
               StatusServiceUnavailable, StatusGatewayTimeout})]_vars

\* what the clients do: they retry on 429, 502 and 503 only
ClientsRetryOnThreeStatuses ==
    [][DoGotResponse => (do'.pc = "sleep" <=> do'.status \in retryableStatus)]_vars

(***************************************************************************)
(* Properties of retry.Queue                                               *)
(***************************************************************************)
NoTwoOfALink(q) == \A i, j \in DOMAIN q : q[i].Link = q[j].Link => i = j

\* the items of a queue but for one link's
WithoutLink(q, l) == {q[i] : i \in {k \in DOMAIN q : q[k].Link # l}}

\* Add has run on a link that was queued as item i
AddedPresent(i) ==
    /\ Len(rq'.items) = Len(rq.items)
    /\ rq'.items[i].Link = rq'.link
    /\ rq'.items[i].RetryCount = rq.items[i].RetryCount + 1
    /\ rq'.items[i].LastError = rq'.emsg
    /\ WithoutLink(rq'.items, rq'.link) = WithoutLink(rq.items, rq'.link)

\* Add has run on a link that was not queued
AddedAbsent ==
    /\ Len(rq'.items) = Len(rq.items) + 1
    /\ SubSeq(rq'.items, 1, Len(rq.items)) = rq.items
    /\ rq'.items[Len(rq'.items)].Link = rq'.link
    /\ rq'.items[Len(rq'.items)].RetryCount = 0
    /\ rq'.items[Len(rq'.items)].LastError = rq'.emsg

\* C23: after any sequence of Add, IncrementRetry, Remove and Clear on a
\* queue that started empty no two items have the same link; Add on a queued
\* link keeps the length, adds exactly one to that item's count and replaces
\* its last error, and Add on a link not queued appends one item of count 0.
C23_OneItemPerLink ==
    /\ [](NoTwoOfALink(rq.items))
    /\ [][(rq' # rq /\ rq'.op = "Add") =>
             IF rq'.link \in QueueLinks(rq.items)
             THEN AddedPresent(QueueIndex(rq.items, rq'.link))
             ELSE AddedAbsent]_vars

C23_Witness ==
    /\ rq.op = "Add"
    /\ Len(rq.items) = 2
    /\ rq.items[1].Link = rq.link
    /\ rq.items[1].RetryCount = MaxRetryCount
    /\ rq.items[1].LastError = "HTTP 429"
    /\ rq.items[1].ErrorType = "503"
    /\ rq.items[2].RetryCount = 1

(***************************************************************************)
(* Properties of processRetryQueue                                         *)
(***************************************************************************)
\* the items of the queue before the drain that are to stay: below the cap,
\* of a torrent passed in, and failed with a retryable error
KeptByDrain ==
    {i \in DOMAIN dr.before :
        /\ dr.before[i].RetryCount < MaxRetryAttempts
        /\ dr.before[i].TorrentID \in dr.torrents
        /\ dr.errs[i] \notin {NoError, NotCalled}
        /\ dr.errs[i].kind = "http"
        /\ (dr.errs[i].StatusCode \in {StatusServiceUnavailable, StatusBadGateway,
                                       StatusGatewayTimeout}
            \/ dr.errs[i].Code = "server_unavailable_retryable")}

\* C24: after a drain the queue holds exactly the items it held before that
\* were below the cap, whose torrent is among the downloaded torrents and
\* whose unrestrict call failed with a retryable error, each with its count
\* raised by exactly one; every item is examined exactly once, whatever is
\* removed meanwhile; and the queue that results is saved.
C24_DrainKeepsRetryable ==
    /\ (dr.pc = "returned" =>
          /\ Range(dr.items) = {[dr.before[i] EXCEPT !.RetryCount = @ + 1] : i \in KeptByDrain}
          /\ Len(dr.items) = Cardinality(KeptByDrain)
          /\ Len(dr.errs) = Len(dr.before)
          /\ dr.saved = dr.items)
    /\ (dr.pc = "loop" =>
          /\ dr.snapshot = [i \in DOMAIN dr.before |-> dr.before[i].Link]
          /\ Len(dr.errs) = dr.idx - 1
          /\ \A i \in DOMAIN dr.before :
                i >= dr.idx => dr.before[i] \in Range(dr.items))

C24_Witness ==
    /\ dr.pc = "returned"
    /\ Len(dr.before) = MaxQueue
    /\ KeptByDrain = {MaxQueue}
    /\ dr.stats.MaxedOut = 1
    /\ dr.stats.Succeeded = 1
    /\ dr.items = dr.saved

C24_WitnessSwap ==
    /\ dr.pc = "returned"
    /\ Len(dr.before) = MaxQueue
    /\ KeptByDrain = {2, MaxQueue}
    /\ dr.items[1].Link = dr.before[MaxQueue].Link
    /\ dr.errs[1] = NotCalled

(***************************************************************************)
(* Properties of GetTorrents                                               *)
(***************************************************************************)
\* the pages before the last were full, and the last one ended the loop
StoppedAtFirstEnd ==
    /\ \A i \in 1..(Len(gt.sizes) - 1) : gt.sizes[i] = TorrentsLimit
    /\ \/ gt.sizes[Len(gt.sizes)] = NoContent
       \/ gt.sizes[Len(gt.sizes)] < TorrentsLimit
       \/ Len(gt.sizes) = MaxPages

\* C25: GetTorrents always ends.  It asks for the pages 1, 2, ... with the
\* limit, stops at the first page that is empty, short or answered with 204,
\* and asks for no more pages than the safety limit; a page answered with
\* another status than 200 makes the call fail with no lists; the result
\* holds every fetched torrent that is downloaded in the first list, every
\* dead one in the second, and the others in neither.
C25_GetTorrentsPages ==
    /\ [](gt.asked = [i \in 1..Len(gt.asked) |-> [page |-> i, limit |-> TorrentsLimit]])
    /\ [](Len(gt.asked) <= MaxPages)
    /\ [](gt.pc = "fetch" => \A i \in DOMAIN gt.sizes : gt.sizes[i] = TorrentsLimit)
    /\ []((gt.pc = "returned" /\ gt.err # "") => gt.downloaded = <<>> /\ gt.dead = <<>>)
    /\ []((gt.pc = "returned" /\ gt.err = "") =>
             /\ StoppedAtFirstEnd
             /\ Len(gt.sizes) = Len(gt.asked)
             /\ \A t \in Range(gt.allTorrents) :
                   /\ t \in Range(gt.downloaded) <=> t.Status = "downloaded"
                   /\ t \in Range(gt.dead) <=> t.Status = "dead"
             /\ Range(gt.downloaded) \cup Range(gt.dead) \subseteq Range(gt.allTorrents)
             /\ NoRepeats(gt.downloaded) /\ NoRepeats(gt.dead))
    /\ (gt.pc = "fetch") ~> (gt.pc = "returned")

C25_Witness ==
    /\ gt.pc = "returned"
    /\ gt.err = ""
    /\ Len(gt.asked) = MaxPages
    /\ gt.sizes[MaxPages] = TorrentsLimit
    /\ Len(gt.downloaded) = 2
    /\ Len(gt.dead) = 2
    /\ Len(gt.allTorrents) = MaxPages * TorrentsLimit

(***************************************************************************)
(* Properties of repair.Service                                            *)
(***************************************************************************)
\* the repairs of a real run that are over or under way
RepairsSoFar == Range(rp.repairs) \cup (IF rp.cur = NoRepair THEN {} ELSE {rp.cur})
RealRepairs == {r \in RepairsSoFar : ~rp.dryRun}

\* the original is deleted only after AddMagnet and SelectVideoFiles have
\* succeeded for the new id
OldDeletedLast ==
    \A r \in RealRepairs :
        /\ r.old \notin rp.account => (r.new # 0 /\ r.selected /\ r.oldDeleted)
        /\ r.oldDeleted => (r.new # 0 /\ r.selected)

\* a failed SelectVideoFiles keeps the original and counts as a failure
SelectFailureKeepsOld ==
    \A r \in Range(rp.repairs) :
        (r.new # 0 /\ ~r.selected) => (r.old \in rp.account /\ r.counted = "failed")

\* a failed SelectVideoFiles leaves no new torrent behind
SelectFailureDeletesNew ==
    \A r \in Range(rp.repairs) : (r.new # 0 /\ ~r.selected) => r.new \notin rp.account

\* a repair whose original could not be deleted counts as a success
DeleteFailureIsSuccess ==
    \A r \in Range(rp.repairs) : (r.selected /\ ~r.oldDeleted) => r.counted = "succeeded"

BatchIsCounted ==
    /\ rp.succeeded + rp.failed = Len(rp.repairs)
    /\ rp.pc = "returned" => rp.succeeded + rp.failed = Len(rp.torrents)

\* C26: the repair of a torrent deletes the old id only after AddMagnet and
\* SelectVideoFiles for the new id have succeeded; when SelectVideoFiles
\* fails the new torrent is deleted, the old one is kept and the repair
\* counts as failed; a failure to delete the old torrent counts as success;
\* and for a batch succeeded + failed is the number of torrents passed in.
C26_RepairInOrder ==
    /\ OldDeletedLast
    /\ SelectFailureKeepsOld
    /\ SelectFailureDeletesNew
    /\ DeleteFailureIsSuccess
    /\ BatchIsCounted

\* all of it but the deletion of the new torrent holds
RepairInOrderButCleanup ==
    /\ OldDeletedLast
    /\ SelectFailureKeepsOld
    /\ DeleteFailureIsSuccess
    /\ BatchIsCounted

\* a batch in which every such case has happened
RepairCases ==
    /\ rp.pc = "returned"
    /\ Len(rp.torrents) = MaxBatch
    /\ \E r \in Range(rp.repairs) : r.new # 0 /\ ~r.selected /\ r.newDeleted
    /\ \E r \in Range(rp.repairs) : r.selected /\ ~r.oldDeleted

(***************************************************************************)
(* Properties of Save                                                      *)
(***************************************************************************)
\* C27: when the process is killed at any point of a Save of the tracking
\* store or of the retry queue, the file holds afterwards the whole previous
\* document or the whole new one, never a part of one.
C27_SaveIsAtomic == sv.pc = "killed" => sv.file \in {sv.previous, sv.data}

\* a Save that runs to its end leaves the new document
SaveLeavesData == sv.pc = "saved" => sv.file = sv.data

\* the file after a kill: cut off within the new document
TornFile ==
    /\ sv.pc = "killed"
    /\ sv.store = "retry"
    /\ Len(sv.previous) = MaxDoc
    /\ Len(sv.data) = MaxDoc
    /\ Len(sv.file) = 1

(***************************************************************************)
(* The organizer leaves the tracking file alone                            *)
(***************************************************************************)
\* C28: whatever the library, the organized directory and the organizer
\* database hold, the tracking file holds after Run what it held before: Run
\* neither writes, truncates nor removes it
C28_TrackingFileUntouched ==
    org.ran => org.fs[trackingPath] = org.before[trackingPath]

\* a Run that copied a file, removed another and saved a database, with a
\* tracking file of two records
C28_Witness ==
    /\ org.ran
    /\ org.result.New > 0
    /\ org.result.Deleted > 0
    /\ Cardinality(DOMAIN loadTracking(org.before)) = 2
    /\ org.fs[dbPath] # org.before[dbPath]

(***************************************************************************)
(* The organizer removes what has lost its source                          *)
(***************************************************************************)
\* the database entries whose source file the library no longer held when
\* Run was called
StaleEntries == {p \in DOMAIN loadDB(org.before) : ~fileExists(org.before, libraryDir(p))}
StaleDests == {organizedDir(loadDB(org.before)[p].DestPath) : p \in StaleEntries}

\* C29: after Run, for every database entry whose source file is no longer in
\* the library, listed in the tracking file or not, the organized file is
\* gone, every file so removed is counted in Deleted, and the saved database
\* has no entry of that path
C29_StaleRemoved ==
    org.ran =>
        /\ \A f \in StaleDests : ~fileExists(org.fs, f)
        /\ org.result.Deleted >= Cardinality({f \in StaleDests : fileExists(org.before, f)})
        /\ org.result.Deleted <= Cardinality(StaleDests)
        /\ \A p \in StaleEntries : p \notin DOMAIN loadDB(org.fs)

\* a Run that found an entry whose source was gone while the tracking file
\* still listed it, with its organized file there
C29_Witness ==
    /\ org.ran
    /\ \E p \in StaleEntries :
          /\ p \in DOMAIN loadTracking(org.before)
          /\ fileExists(org.before, organizedDir(loadDB(org.before)[p].DestPath))
    /\ org.result.Deleted = 1

\* nothing but stale destinations is counted, when no copy of this Run went
\* to one of them
DeletedAreStale ==
    (org.ran /\ \A p \in DOMAIN loadDB(org.fs) :
                   organizedDir(loadDB(org.fs)[p].DestPath) \notin StaleDests)
        => org.result.Deleted = Cardinality({f \in StaleDests : fileExists(org.before, f)})

(***************************************************************************)
(* The organizer copies again when the download URL has changed            *)
(***************************************************************************)
\* the paths whose source file was there when Run was called, and for which
\* the tracking file and the organizer database recorded different URLs
ChangedURL ==
    {p \in DOMAIN loadTracking(org.before) \cap DOMAIN loadDB(org.before) :
        /\ fileExists(org.before, libraryDir(p))
        /\ loadTracking(org.before)[p].DownloadURL # loadDB(org.before)[p].DownloadURL}
SeenSources == {p \in DOMAIN loadTracking(org.before) : fileExists(org.before, libraryDir(p))}

UnderCwd == Resolve(od.cwd, od.cfg.OrganizedDir)
UnderBaseDir == Resolve(od.cwd, Join(od.cfg.BaseDir, od.cfg.OrganizedDir))
RelativeElsewhere ==
    /\ od.cfg.OrganizedDir # EmptyPath
    /\ ~IsAbs(od.cfg.OrganizedDir)
    /\ UnderCwd # UnderBaseDir

\* C31: a relative organized_dir is resolved against the working directory
\* and not against the directory of the configuration file: when the two
\* differ, every organized file is written under <cwd>/<organized_dir> and
\* none under <BaseDir>/<organized_dir>
C31_RelativeUnderCwd ==
    RelativeElsewhere =>
        \A f \in od.written : Under(f, UnderCwd) /\ ~Under(f, UnderBaseDir)

\* what New does: a relative organized_dir is joined to BaseDir, an absolute
\* one is kept, none is library-organized in BaseDir
OrganizedUnderBaseDir ==
    /\ RelativeElsewhere => \A f \in od.written : Under(f, UnderBaseDir) /\ ~Under(f, UnderCwd)
    /\ IsAbs(od.cfg.OrganizedDir) => \A f \in od.written : Under(f, od.cfg.OrganizedDir)
    /\ od.cfg.OrganizedDir = EmptyPath =>
          \A f \in od.written :
             Under(f, Resolve(od.cwd, Join(od.cfg.BaseDir, RelPath(<<"library-organized">>))))

\* the configuration of the test: ./library-organized, the configuration
\* file elsewhere than the working directory, and a file organized
RelativeWritten ==
    /\ RelativeElsewhere
    /\ od.cfg.OrganizedDir = RelPath(<<".", "library-organized">>)
    /\ od.cfg.BaseDir = AbsPath(<<"data">>)
    /\ od.cwd = AbsPath(<<"app">>)
    /\ od.written # {}

(***************************************************************************)
(* The two counters of one UnrestrictLink call                             *)
(***************************************************************************)
\* C32: in one UnrestrictLink call the 503 counter and the 429 counter are
\* independent: the call returns server_unavailable_retryable exactly when
\* the provider's third 503 response comes and rate_limit_exceeded exactly
\* when its fourth 429 response comes, a response of another status than
\* 200, 503 and 429 ends the call at once, and so the call ends after at
\* most 6 responses whatever statuses the provider returns
C32_CountersEndTheCall ==
    /\ unr.pc = "request" => (unr.seen503 <= 2 /\ unr.seen429 <= 3 /\ unr.seenOther = 0)
    /\ unr.pc = "done" =>
          /\ unr.result = ServerUnavailableRetryable <=> unr.seen503 = 3
          /\ unr.result = RateLimitExceeded <=> unr.seen429 = 4
    /\ unr.requests <= 6

\* the same of the responses Do hands to UnrestrictLink, each of them the
\* last of up to six requests of Do
SwitchCountersEndTheCall ==
    /\ unr.pc = "request" => (unr.attempt503 <= max503Retries /\ unr.attempt429 <= max429Retries)
    /\ unr.pc = "done" =>
          /\ unr.result = ServerUnavailableRetryable <=> unr.attempt503 = max503Retries + 1
          /\ unr.result = RateLimitExceeded <=> unr.attempt429 = max429Retries + 1
    /\ unr.responses = unr.attempt503 + unr.attempt429 + (IF unr.pc = "done" /\ unr.result \notin {ServerUnavailableRetryable, RateLimitExceeded} THEN 1 ELSE 0)
    /\ unr.responses <= max503Retries + max429Retries + 1
    /\ unr.requests <= (max503Retries + max429Retries + 1) * (maxRetries + 1)

\* a call that took every request it can take
LongestCall == unr.pc = "done" /\ unr.requests = 36 /\ unr.responses = 6

(***************************************************************************)
(* Every candidate of a reconcile and its file                             *)
(***************************************************************************)
\* C33: after a non-dry-run Sync without I/O error, for every candidate
\* passed to it, the file at the candidate's path holds that candidate's
\* direct URL, also when a video and a subtitle of one torrent have the same
\* base name or two names sanitize to the same path
C33_EveryCandidateWritten ==
    SyncDone =>
        \A i \in DOMAIN lastSync.cands :
            /\ CandPath(lastSync.cands[i]) \in DOMAIN files
            /\ files[CandPath(lastSync.cands[i])].url = lastSync.cands[i].DownloadURL

\* what Sync does: of the candidates of one path, the file holds the URL of
\* the last one
LastCandidateWritten ==
    SyncDone =>
        \A p \in ExpectedPaths(lastSync.cands) :
            /\ p \in DOMAIN files
            /\ files[p].url = CandidateMap(lastSync.cands)[p].DownloadURL

\* a Sync over the video and the subtitle of one torrent, of the same base name
VideoAndSubtitle ==
    /\ SyncDone
    /\ \E i, j \in DOMAIN lastSync.cands :
          /\ i < j
          /\ lastSync.cands[i].TorrentID = lastSync.cands[j].TorrentID
          /\ lastSync.cands[i].Link = "l1"
          /\ lastSync.cands[j].Link = "l2"
          /\ CandPath(lastSync.cands[i]) = CandPath(lastSync.cands[j])
          /\ files[CandPath(lastSync.cands[i])].url = lastSync.cands[j].DownloadURL

(***************************************************************************)
(* The fan-out records every link once                                     *)
(***************************************************************************)
\* how often a link is in a sequence of links
TimesIn(s, l) == Cardinality({k \in DOMAIN s : s[k] = l})
ResultLinks == [k \in DOMAIN fo.shared.results |-> fo.shared.results[k].Link]
FailedTasks == {i \in DOMAIN fo.links : fo.err[i] # NoError}

\* C34: however the tasks of the fan-out interleave, once the pool's wait has
\* returned every submitted pair is recorded once, as a download in results
\* or as a link in failed: results and failed together are as many as the
\* missing links, no update is lost, and queued is the number of failed links
\* with a retryable error
C34_EveryLinkRecordedOnce ==
    fo.pc = "waited" =>
        /\ Len(fo.shared.results) + Len(fo.shared.failed) = Len(fo.links)
        /\ \A l \in {fo.links[i].link : i \in DOMAIN fo.links} :
              /\ TimesIn(ResultLinks, l)
                    = Cardinality({i \in DOMAIN fo.links \ FailedTasks : fo.links[i].link = l})
              /\ TimesIn(fo.shared.failed, l)
                    = Cardinality({i \in FailedTasks : fo.links[i].link = l})
        /\ fo.shared.queued = Cardinality({i \in FailedTasks : isRetryableError(fo.err[i])})

\* three tasks that all had returned before the first took the mutex: one
\* success, one failure that is queued and one that is not
C34_Witness ==
    /\ fo.pc = "waited"
    /\ Len(fo.links) = 3
    /\ Len(fo.shared.results) = 1
    /\ Len(fo.shared.failed) = 2
    /\ fo.shared.queued = 1
    /\ fo.shared.failed[1] = fo.links[3].link
    /\ fo.links[1].link = fo.links[3].link

(***************************************************************************)
(* The torrents of the failed links go to repair                           *)
(***************************************************************************)
\* the links whose unrestriction failed in the fan-out, and the downloaded
\* torrents that list one of them
LinksThatFailed == {ff.outcome[k].link : k \in {j \in DOMAIN ff.outcome : ff.outcome[j].err # NoError}}
TorrentsOfFailed ==
    {ff.torrents[i].ID : i \in {j \in DOMAIN ff.torrents :
                                   \E k \in DOMAIN ff.torrents[j].Links :
                                      ff.torrents[j].Links[k] \in LinksThatFailed}}

\* C35: with repair enabled, outside a dry run, every downloaded torrent
\* listing a link whose unrestriction failed in this cycle is passed to
\* repair once (one torrent per id), whatever the error was and whether or
\* not the link was put into the retry queue; a torrent without a failed
\* link is not passed to repair
C35_FailedTorrentsRepaired ==
    (ff.pc \in {"repair", "sync"} /\ ff.repair /\ ~ff.dryRun) =>
        /\ Range(ff.passed) = TorrentsOfFailed
        /\ Len(ff.passed) = Cardinality(TorrentsOfFailed)
        /\ ff.pc = "repair" <=> TorrentsOfFailed # {}

\* three torrents: the one whose second link failed with an error that is
\* queued is passed to repair with the one whose link failed with another
\* error, the third is not
C35_Witness ==
    /\ ff.pc = "repair"
    /\ Len(ff.torrents) = 3
    /\ Len(ff.passed) = 2
    /\ 1 \in Range(ff.passed)
    /\ \E k \in DOMAIN ff.outcome :
          ff.outcome[k].link = "l2" /\ isRetryableError(ff.outcome[k].err)
    /\ \E k \in DOMAIN ff.outcome :
          ff.outcome[k].link = "l3" /\ ff.outcome[k].err = HosterUnavailableError
    /\ "l1" \notin LinksThatFailed

\* without repair, or in a dry run, no torrent is passed to repair
NoRepairWhenOff ==
    (ff.pc \in {"repair", "sync"} /\ (~ff.repair \/ ff.dryRun)) => (ff.pc = "sync" /\ ff.passed = <<>>)

\* in Run itself, the step after the fan-out passes the torrents of the
\* failed links on, in some order
FanoutPassesFailed ==
    [][(pc = "fanout" /\ pc' # "fanout") =>
          IF cfgRepair /\ Len(failed) > 0
          THEN /\ pc' = "repairFailed"
               /\ Range(repairList') = findTorrentsForLinks(downloaded, failed)
               /\ Len(repairList') = Cardinality(findTorrentsForLinks(downloaded, failed))
          ELSE pc' = "sync" /\ UNCHANGED repairVars]_vars

(***************************************************************************)
(* A failed unrestriction and the files of the link                        *)
(***************************************************************************)
\* the tracked files of a link that a downloaded torrent of this cycle lists,
\* that the downloads did not hold and whose unrestriction failed
FilesOfFailedLinks ==
    {p \in DOMAIN files \cap DOMAIN tracking :
        /\ tracking[p].Link \in Range(failed)
        /\ \E i \in DOMAIN downloaded :
              /\ downloaded[i].ID = tracking[p].TorrentID
              /\ tracking[p].Link \in Range(downloaded[i].Links)}

\* C36: a .strm file made for link L of torrent T is not deleted by a later
\* cycle in which T is still a downloaded torrent listing L: when L is not
\* among the downloads and its unrestriction fails in that cycle, queued for
\* a retry or not, the file and its tracking record are still there when the
\* cycle ends
C36_FailedLinkKeepsFile ==
    [][(pc = "sync" /\ ~dryRun /\ pc' # "sync") =>
          \A p \in FilesOfFailedLinks : p \in DOMAIN files' /\ p \in DOMAIN tracking']_vars

\* what Sync does: a file whose link failed and is in no candidate goes as an
\* orphan, with its tracking record
FailedLinkLosesFile ==
    [][(pc = "sync" /\ ~dryRun /\ lastSync'.ok /\ pc' # "sync") =>
          \A p \in FilesOfFailedLinks :
              p \notin ExpectedPaths(candidates') => (p \notin DOMAIN files' /\ p \notin DOMAIN tracking')]_vars

(***************************************************************************)
(* A queued link and the drain of the next cycle                           *)
(***************************************************************************)
\* the drain reaches the item of a link that the fan-out of the cycle before
\* enqueued and that has attempts left, repair being enabled and the
\* provider's torrents changed by nobody but the program
DrainReachesEnqueued ==
    /\ pc = "drain"
    /\ drainIdx <= Len(drainItems)
    /\ drainIdx' = drainIdx + 1
    /\ cfgRepair
    /\ envLeft = MaxEnv
    /\ drainItems[drainIdx] \in twoCycle.enqPrev
    /\ queue[QueueIndex(queue, drainItems[drainIdx])].RetryCount < MaxRetryAttempts

DrainDispatches ==
    \E c \in callLog' : c.phase = "drain" /\ c.link = drainItems[drainIdx]

\* C37: a link enqueued during cycle N with an attempt count below the cap is
\* dispatched to unrestrict by the drain of cycle N+1, provided nobody other
\* than the program changes the provider's torrents between the two cycles,
\* repair being enabled
C37_EnqueuedLinkDispatched ==
    [][DrainReachesEnqueued => DrainDispatches]_vars

\* what the drain does: the link is dispatched when the torrent the item
\* names is still among the downloaded torrents, and dropped when it is not
EnqueuedDispatchedIfTorrentKept ==
    [][DrainReachesEnqueued =>
          (DrainDispatches <=>
              \E i \in DOMAIN downloaded :
                  downloaded[i].ID = queue[QueueIndex(queue, drainItems[drainIdx])].TorrentID)]_vars

\* the drain dispatches an enqueued link whose torrent was left alone
EnqueuedDispatched ==
    /\ pc = "drain"
    /\ drainIdx > 1
    /\ drainItems[drainIdx - 1] \in twoCycle.enqPrev
    /\ lastCall.phase = "drain"
    /\ lastCall.link = drainItems[drainIdx - 1]

(***************************************************************************)
(* A maxed-out link and the fan-out of the same cycle                      *)
(***************************************************************************)
\* the cycle has ended, with Run returning a result or an error
CycleEnded == pc = "idle" /\ cycles > 0

\* C38: a link whose retry item the drain of a cycle removed as maxed out is
\* not in the retry queue when that cycle ends, even if the link is still
\* missing from the downloads and its unrestriction fails again in the fan-out
C38_MaxedOutStaysOut ==
    CycleEnded => \A l \in twoCycle.maxed : QueueIndex(queue, l) = 0

\* what the code does: the maxed-out link is back in the queue exactly when
\* the fan-out of the cycle enqueued it, as a new item that counts the
\* failures of the fan-out after the first
MaxedOutBackWhenEnqueued ==
    CycleEnded =>
        \A l \in twoCycle.maxed :
            /\ QueueIndex(queue, l) # 0 <=> l \in twoCycle.enq
            /\ QueueIndex(queue, l) # 0 =>
                  queue[QueueIndex(queue, l)].RetryCount
                      < Cardinality({i \in DOMAIN failed : failed[i] = l})

(***************************************************************************)
(* A refreshed file and the refresh of a later cycle                       *)
(***************************************************************************)
\* the paths the refresh phase has selected and not yet come to
StillToRefresh == {refreshList[i] : i \in refreshIdx..Len(refreshList)}

\* C39: a tracked file that one cycle refreshed is not selected for refresh
\* by a later cycle, so that no unrestrict call is issued for it, until
\* file_expiry_days have passed since that refresh
C39_RefreshedNotSelectedAgain ==
    pc = "refresh" =>
        \A p \in StillToRefresh : \A r \in twoCycle.refreshed :
            r.path = p => now - r.at >= FileExpiryDays

\* what GetExpired does: a file is selected by the time of its creation alone,
\* which a refresh leaves as it was
SelectedByCreatedAt ==
    pc = "refresh" =>
        \A p \in StillToRefresh : tracking[p].CreatedAt < now - FileExpiryDays

\* a refreshed file is selected again in the cycle after, no day having passed
RefreshedSelectedAgain ==
    /\ pc = "refresh"
    /\ \E p \in StillToRefresh : \E r \in twoCycle.refreshed : r.path = p /\ r.at = now

(***************************************************************************)
(* The tracking record of a file that Sync writes                          *)
(***************************************************************************)
\* the paths that the Sync of this step writes, as added or as updated, with
\* the URL of the candidate that the path maps to
WrittenBySync ==
    {p \in ExpectedPaths(candidates') :
        /\ p \in DOMAIN files'
        /\ files'[p] = Content(CandidateMap(candidates')[p].DownloadURL)
        /\ (p \notin DOMAIN files \/ files[p] # files'[p])}

SyncWrites == pc = "sync" /\ ~dryRun /\ pc' = "organizer"

\* C40: whenever reconcile writes the file at a path, added or updated, the
\* tracking record of the path afterwards carries the direct URL, the source
\* link and the torrent id of the candidate that supplied the written URL,
\* also when the path was tracked under another torrent id before
C40_RecordOfWrittenFile ==
    [][SyncWrites =>
          \A p \in WrittenBySync :
              /\ p \in DOMAIN tracking'
              /\ tracking'[p].DownloadURL = CandidateMap(candidates')[p].DownloadURL
              /\ tracking'[p].Link = CandidateMap(candidates')[p].Link
              /\ tracking'[p].TorrentID = CandidateMap(candidates')[p].TorrentID]_vars

\* what Track does: the URL and the link are the candidate's; the torrent id
\* is the candidate's for a path that was not tracked, and stays what it was
\* for a path that was
RecordKeepsTorrentID ==
    [][SyncWrites =>
          \A p \in WrittenBySync :
              /\ p \in DOMAIN tracking'
              /\ tracking'[p].DownloadURL = CandidateMap(candidates')[p].DownloadURL
              /\ tracking'[p].Link = CandidateMap(candidates')[p].Link
              /\ tracking'[p].TorrentID = IF p \in DOMAIN tracking
                                          THEN tracking[p].TorrentID
                                          ELSE CandidateMap(candidates')[p].TorrentID]_vars

=============================================================================
